---------------------------- MODULE Spec2Model ----------------------------
(***************************************************************************)
(* A model of the JT/T 808 -> MQTT gateway (src/converter.py), of its      *)
(* frame codec (src/jt808/message.py, src/jt808/utils.py) and of the       *)
(* terminal simulator (src/simulator.py, src/jt808/protocol.py).           *)
(*                                                                         *)
(* Bytes are naturals 0..255, byte strings are sequences of bytes, Python  *)
(* text strings are sequences of character codes.                          *)
(*                                                                         *)
(* Specifications:                                                         *)
(*   SpecCodec  Message.encode / Message.decode on a bounded set of frames *)
(*   Spec       the TCP sessions of JT808Server at byte level              *)
(*   SpecGate   the publish gate (_publish_location, _publish_status)      *)
(*   SpecStatus _publish_status called by the threads of two sessions      *)
(*   SpecSessions sessions at frame level, sharing the server's caches     *)
(*   SpecTeardown _close_client run by a session's thread and by stop()    *)
(*   SpecFlood  a peer that never closes the frame it opened               *)
(*   SpecAuth   the authentication handler (_publish_authentication)       *)
(*   SpecEscape apply_escape_rules / remove_escape_rules on byte strings   *)
(*   SpecListener the accept thread, the sessions and stop()               *)
(*   SpecHandshake the simulator's handshake with the gateway, on the wire *)
(*   SpecSimulator the simulator's connection manager and its threads      *)
(*   SpecLocation the simulator's location thread                          *)
(*   SpecDecode Message.decode on short framed inputs                      *)
(*   SpecAttr   Message.encode / Message.decode on bodies up to 1024 bytes *)
(*   SpecReport Message.create_location_report and the gateway's parse     *)
(*   SpecResync _process_buffer after bytes that are not a frame           *)
(*   SpecBeat   _publish_heartbeat on heartbeats at a fixed period         *)
(*   SpecSerial _get_next_serial_no called by the simulator's threads      *)
(***************************************************************************)
EXTENDS Integers, Sequences, FiniteSets, TLC

VARIABLES
    \* ---- codec harness (SpecCodec)
    frame,            \* the Message handed to encode()
    wire,             \* the bytes encode() returned, possibly damaged in transit
    decoded,          \* what decode() made of wire
    cpc,              \* "start" -> "encoded" -> "decoded"
    \* ---- JT808Server
    running,          \* self.running
    clients,          \* self.clients: socket -> [open, buffer, device_id]
    hbuf,             \* the local `buffer` of each _handle_client thread
    inflight,         \* bytes written by the peer and not yet returned by recv()
    sent,             \* frames the server wrote to each socket with sendall()
    handled,          \* per socket, the frames _process_buffer passed to Message.decode
    recvs,            \* per socket, the number of recv() calls that returned data
    peer_sent,        \* per socket, the frames the peer has written so far
    broken,           \* the sockets on which sendall() raises
    closes,           \* per socket, the client_socket.close() calls of _close_client
    submits,          \* per socket, the offline statuses _close_client submitted
    device_state,     \* self.device_state
    status_cache,     \* self.status_cache
    heartbeat_cache,  \* self.heartbeat_cache
    auth_cache,       \* self.auth_cache
    registration_cache, \* self.registration_cache
    mqtt_connected,   \* the bus handle's connected bit
    now,              \* time.time()
    ticks,            \* number of clock advances so far
    call,             \* the last gate call and the events it handed to _publish_mqtt
    last_pub_loc,     \* per device, the last location event passed to the bus
    last_offline,     \* per device, the time of the last offline status event
                      \* passed to the bus
    last_pub_hb,      \* per device, the time of the last heartbeat event passed
                      \* to the bus
    threads,          \* per handler thread, its position in _publish_status
    listener,         \* self.server_socket, the accept thread and the thread in stop()
    sim               \* the simulator (GPSTrackingSimulator and its JT808Protocol)

codecVars == <<frame, wire, decoded, cpc>>
sessionVars == <<running, clients, hbuf, inflight, sent, handled, recvs, peer_sent,
                 broken, closes, submits>>
cacheVars == <<device_state, status_cache, heartbeat_cache, auth_cache,
               registration_cache>>
gateVars == <<mqtt_connected, now, ticks, call, last_pub_loc, last_offline,
              last_pub_hb>>
vars == <<codecVars, listener, sim, sessionVars, cacheVars, gateVars, threads>>

-----------------------------------------------------------------------------
(* Bytes, integers and strings                                             *)

Byte == 0..255

Min(a, b) == IF a < b THEN a ELSE b

Max(a, b) == IF a > b THEN a ELSE b

RECURSIVE BitXor(_, _)
\* a ^ b on naturals
BitXor(a, b) ==
    IF a = 0 THEN b
    ELSE IF b = 0 THEN a
    ELSE (((a % 2) + (b % 2)) % 2) + 2 * BitXor(a \div 2, b \div 2)

RECURSIVE BitAnd(_, _)
\* a & b on naturals
BitAnd(a, b) ==
    IF a = 0 \/ b = 0 THEN 0
    ELSE ((a % 2) * (b % 2)) + 2 * BitAnd(a \div 2, b \div 2)

\* a | b on naturals
BitOr(a, b) == a + b - BitAnd(a, b)

\* struct.pack('>H', v)
PackH(v) == <<v \div 256, v % 256>>

\* struct.unpack('>H', b)[0] for the two bytes of b starting at (1-based) i
UnpackH(b, i) == b[i] * 256 + b[i + 1]

\* Python's b[lo:hi] (0-based, hi exclusive, both clipped to the length)
Slice(b, lo, hi) ==
    LET h == Min(hi, Len(b))
    IN  IF lo >= h THEN <<>> ELSE SubSeq(b, lo + 1, h)

\* Python's b[lo:]
From(b, lo) == Slice(b, lo, Len(b))

\* str.isdigit() of one character ('0' is 48)
IsDigitChar(c) == c >= 48 /\ c <= 57

\* the hex digit f'{n:x}'.upper() of a nibble
HexUpper(n) == IF n < 10 THEN 48 + n ELSE 55 + n

RECURSIVE HexString(_)
\* ''.join([f'{b:02x}' for b in data]).upper()
HexString(data) ==
    IF data = <<>> THEN <<>>
    ELSE <<HexUpper(Head(data) \div 16), HexUpper(Head(data) % 16)>>
         \o HexString(Tail(data))

\* bytes.decode('ascii') succeeds
IsAscii(data) == \A i \in 1..Len(data) : data[i] < 128

-----------------------------------------------------------------------------
(* src/jt808/utils.py                                                      *)

\* The loops of utils.py run over every byte of a buffer.  They are written
\* here by halving the index range, so that the depth of evaluation grows
\* with the logarithm of the length; each loop is a fold of an associative
\* operation (XOR, concatenation) over what one index contributes.

RECURSIVE XorRange(_, _, _)
\* data[lo] ^ ... ^ data[hi] (1-based, inclusive), 0 if empty
XorRange(data, lo, hi) ==
    IF lo > hi THEN 0
    ELSE IF lo = hi THEN data[lo]
    ELSE LET mid == (lo + hi) \div 2
         IN  BitXor(XorRange(data, lo, mid), XorRange(data, mid + 1, hi))

\* calculate_checksum: checksum ^= b for each byte
calculate_checksum(data) == XorRange(data, 1, Len(data))

RECURSIVE Concat(_, _, _)
\* parts[lo] + ... + parts[hi] for a sequence of byte strings
Concat(parts, lo, hi) ==
    IF lo > hi THEN <<>>
    ELSE IF lo = hi THEN parts[lo]
    ELSE LET mid == (lo + hi) \div 2
         IN  Concat(parts, lo, mid) \o Concat(parts, mid + 1, hi)

\* apply_escape_rules: what the loop appends for each byte
\* the variant of apply_escape_rules that escapes 0x7e only
apply_escape_rules_7e_only(data) ==
    Concat([i \in 1..Len(data) |-> IF data[i] = 126 THEN <<125, 2>> ELSE <<data[i]>>],
           1, Len(data))

apply_escape_rules(data) ==
    Concat([i \in 1..Len(data) |->
               IF data[i] = 126 THEN <<125, 2>>
               ELSE IF data[i] = 125 THEN <<125, 1>>
               ELSE <<data[i]>>],
           1, Len(data))

\* remove_escape_rules: what the while loop appends for each index i
\* (1-based).  The loop steps over index i without appending exactly when
\* index i - 1 held 0x7d and index i holds 0x01 or 0x02: a 0x7d is never
\* itself stepped over, since only 0x01 and 0x02 are.
remove_escape_rules(data) ==
    Concat([i \in 1..Len(data) |->
               IF i > 1 /\ data[i - 1] = 125 /\ (data[i] = 1 \/ data[i] = 2) THEN <<>>
               ELSE IF data[i] = 125 /\ i + 1 <= Len(data) /\ data[i + 1] = 2 THEN <<126>>
               ELSE IF data[i] = 125 /\ i + 1 <= Len(data) /\ data[i + 1] = 1 THEN <<125>>
               ELSE <<data[i]>>],
           1, Len(data))

-----------------------------------------------------------------------------
(* src/jt808/message.py                                                    *)

\* subpackage_info = None
NoInfo == <<>>

\* Message.__init__ (phone_no given as a str, body as bytes)
Message(msg_id, phone_no, body, msg_serial_no, is_subpackage, encrypted, subpackage_info) ==
    [msg_id |-> msg_id, phone_no |-> phone_no, body |-> body,
     msg_serial_no |-> msg_serial_no, is_subpackage |-> is_subpackage,
     encrypted |-> encrypted, subpackage_info |-> subpackage_info]

\* Message.get_body_attr
get_body_attr(m) ==
    LET a0 == Len(m.body)
        a1 == IF m.encrypted THEN BitOr(a0, 1024) ELSE a0
    IN  IF m.is_subpackage THEN BitOr(a1, 8192) ELSE a1

\* str.zfill(12)
RECURSIVE ZFill12(_)
ZFill12(s) == IF Len(s) >= 12 THEN s ELSE ZFill12(<<48>> \o s)

\* Message.encode, lines 76-102: the 12 characters written for the device id.
\* fallback is the string random.randint draws when phone_no holds no digit.
PhoneBytes(phone_no, fallback) ==
    LET digits == SelectSeq(phone_no, IsDigitChar)
        s == IF digits # <<>> THEN digits ELSE fallback
    IN  IF Len(s) > 12 THEN SubSeq(s, Len(s) - 11, Len(s)) ELSE ZFill12(s)

\* struct.pack('6s', b): the first six bytes, zero padded
Pack6s(b) == [i \in 1..6 |-> IF i <= Len(b) THEN b[i] ELSE 0]

\* Message.encode
EncodeWith(m, fallback) ==
    LET header == PackH(m.msg_id) \o PackH(get_body_attr(m))
                  \o Pack6s(PhoneBytes(m.phone_no, fallback))
                  \o PackH(m.msg_serial_no) \o PackH(0)
        sub == IF m.is_subpackage /\ m.subpackage_info # NoInfo
               THEN PackH(m.subpackage_info[1]) \o PackH(m.subpackage_info[2])
               ELSE <<>>
        msg_data == header \o sub \o m.body
    IN  <<126>> \o apply_escape_rules(msg_data \o <<calculate_checksum(msg_data)>>)
        \o <<126>>

\* the fallback device id is never used for a phone_no that holds a digit
DefaultFallback == [i \in 1..12 |-> 49]
Encode(m) == EncodeWith(m, DefaultFallback)

\* the result of a decode() that raised
NoMessage == Message(0, <<>>, <<>>, 0, FALSE, FALSE, NoInfo)
Raised == [ok |-> FALSE, msg |-> NoMessage]

\* Message.decode, lines 220-237: phone_bcd as a string
PhoneNo(phone_bcd) ==
    IF IsAscii(phone_bcd) THEN phone_bcd ELSE HexString(phone_bcd)

\* Message.decode
Decode(data) ==
    IF ~(Len(data) >= 1 /\ data[1] = 126 /\ data[Len(data)] = 126) THEN Raised
    ELSE
    LET unescaped == remove_escape_rules(Slice(data, 1, Len(data) - 1))
    IN  IF Len(unescaped) < 2 THEN Raised
        ELSE
        LET msg_data == SubSeq(unescaped, 1, Len(unescaped) - 1)
            n == Len(msg_data)
        IN  \* a checksum mismatch is logged and decoding continues
            IF n < 2 THEN Raised
            ELSE
            LET msg_id == UnpackH(msg_data, 1)
                body_attr == IF n >= 4 THEN UnpackH(msg_data, 3) ELSE 0
                phone_bcd == IF n >= 10 THEN SubSeq(msg_data, 5, 10)
                             ELSE <<48, 48, 48, 48, 48, 48>>
                msg_serial_no == IF n >= 12 THEN UnpackH(msg_data, 11) ELSE 0
                is_subpackage == BitAnd(body_attr, 8192) # 0
                encrypted == BitAnd(body_attr, 1024) # 0
                header_len0 == IF n < 12 THEN n ELSE 12
                has_info == is_subpackage /\ n >= header_len0 + 4
                subpackage_info ==
                    IF has_info
                    THEN <<UnpackH(msg_data, header_len0 + 1),
                           UnpackH(msg_data, header_len0 + 3)>>
                    ELSE NoInfo
                header_len == IF has_info THEN header_len0 + 4 ELSE header_len0
            IN  [ok |-> TRUE,
                 msg |-> Message(msg_id, PhoneNo(phone_bcd), From(msg_data, header_len),
                                 msg_serial_no, is_subpackage, encrypted,
                                 subpackage_info)]

-----------------------------------------------------------------------------
(* src/jt808/constants.py                                                  *)

TERMINAL_HEARTBEAT == 2
TERMINAL_LOGOUT == 3
TERMINAL_REGISTRATION == 256
TERMINAL_AUTH == 258
LOCATION_REPORT == 512
BATCH_LOCATION_UPLOAD == 1796
PLATFORM_GENERAL_RESPONSE == 32769
TERMINAL_REGISTRATION_RESPONSE == 33024
LAT_SOUTH == 4
LON_WEST == 8

-----------------------------------------------------------------------------
(* Python dicts and str                                                    *)

\* {}
EmptyDict == [k \in {} |-> 0]

\* d[k] = v
Put(d, k, v) == [x \in (DOMAIN d) \cup {k} |-> IF x = k THEN v ELSE d[x]]

\* del d[k]
Del(d, k) == [x \in (DOMAIN d) \ {k} |-> d[x]]

\* the str 'unknown'
Unknown == <<117, 110, 107, 110, 111, 119, 110>>

\* the auth code "123456" the server hands out
AuthCode123456 == <<49, 50, 51, 52, 53, 54>>

-----------------------------------------------------------------------------
(* JT808Server: configuration (src/converter.py, __init__)                 *)

\* mqtt_config.get('throttle_duplicates', True)
throttle_duplicates == TRUE

\* self.heartbeat_interval, seconds
heartbeat_interval == 60

\* self.status_ttl, seconds
status_ttl == 300

\* the anti-flap window of _publish_status, seconds
AntiFlapWindow == 5

\* self.thresholds[activity]['interval'], seconds
ThresholdInterval(activity) ==
    CASE activity = "fast_moving" -> 5
      [] activity = "walking" -> 60
      [] OTHER -> 300

\* self.thresholds[activity]['distance'], in millimetres
ThresholdDistance(activity) ==
    CASE activity = "fast_moving" -> 5000
      [] activity = "walking" -> 10000
      [] OTHER -> 15000

-----------------------------------------------------------------------------
(* Geo.  A decimal-degree coordinate is kept as a whole number of arc      *)
(* seconds (3600 times the float the code computes): dms_to_decimal yields *)
(* degrees + minutes/60 + seconds/3600, which is that number over 3600.    *)

\* jt808.utils.dms_to_decimal, times 3600
dms_to_decimal(dms_value) ==
    LET degrees == dms_value \div 1000000
        minutes == (dms_value % 1000000) \div 10000
        seconds == (dms_value % 10000) \div 100
    IN  degrees * 3600 + minutes * 60 + seconds

\* Earth radius 6371000 m times one arc second in radians, in millimetres
MmPerArcSecond == 30887

Abs(x) == IF x < 0 THEN -x ELSE x

\* JT808Server._calculate_distance in millimetres, for two points of one
\* meridian (lon1 = lon2): there dlon = 0, a = sin(dlat/2)^2, c = |dlat| and
\* the distance is R * |dlat|.  Every position of this model lies on one meridian.
calculate_distance(lat1, lon1, lat2, lon2) == MmPerArcSecond * Abs(lat2 - lat1)

-----------------------------------------------------------------------------
(* JT808Server: the publish gate.  The operators below take the server's   *)
(* caches as a record S and return the record after the call; S.events     *)
(* collects what the call handed to _publish_mqtt, in order.               *)

\* The value of a one-element set.  TLC passes arguments unevaluated; the
\* operators that thread the record S bind it once, as the x of
\* ByValue({Body(x) : x \in {S}}).
ByValue(one) == CHOOSE r \in one : TRUE

\* one payload handed to _publish_mqtt; sent: mqtt_client.publish was called
Event(kind, device_id) ==
    [kind |-> kind, device_id |-> device_id, status |-> "", latitude |-> 0,
     longitude |-> 0, speed |-> 0, auth_code |-> <<>>, sent |-> FALSE]

\* JT808Server._publish_mqtt: a payload is passed on only while connected
\* the variant of _publish_mqtt that calls mqtt_client.publish whatever the
\* connection flag says
publish_mqtt_unconditional(S0, ev) ==
    LET Body(S) ==
        [S EXCEPT !.events = @ \o <<[ev EXCEPT !.sent = TRUE]>>]
    IN  ByValue({Body(x) : x \in {S0}})

publish_mqtt(S0, ev) ==
    LET Body(S) ==
        [S EXCEPT !.events = @ \o <<[ev EXCEPT !.sent = S.connected]>>]
    IN  ByValue({Body(x) : x \in {S0}})

\* the variant of StatusShouldPublish that debounces offline transitions too
StatusShouldPublishOfflineDebounced(in_cache, cached_status_value, time_since_last, status) ==
    IF ~in_cache THEN TRUE
    ELSE IF cached_status_value = status THEN FALSE
    ELSE time_since_last >= AntiFlapWindow

\* JT808Server._publish_status, lines 1127-1154: should_publish
StatusShouldPublish(in_cache, cached_status_value, time_since_last, status) ==
    IF ~in_cache THEN TRUE
    ELSE IF cached_status_value = status
         THEN \* both branches of the TTL test clear should_publish
              IF status = "online" /\ time_since_last < status_ttl THEN FALSE ELSE FALSE
    ELSE IF status = "offline" THEN TRUE
    ELSE IF status = "online" /\ cached_status_value = "offline"
            /\ time_since_last < AntiFlapWindow
         THEN FALSE
    ELSE TRUE

\* JT808Server._publish_status
publish_status(S0, device_id, status, current_time) ==
    LET Body(S) ==
        LET in_cache == device_id \in DOMAIN S.status_cache
            cached == IF in_cache THEN S.status_cache[device_id]
                      ELSE [status |-> "", timestamp |-> 0]
            should_publish == StatusShouldPublish(in_cache, cached.status,
                                                  current_time - cached.timestamp, status)
            S1 == [S EXCEPT !.status_cache =
                      Put(@, device_id, [status |-> status, timestamp |-> current_time])]
        IN  IF should_publish
            THEN publish_mqtt(S1, [Event("status", device_id) EXCEPT !.status = status])
            ELSE S1
    IN  ByValue({Body(x) : x \in {S0}})

\* the variant of _publish_heartbeat without the heartbeat_interval throttle
publish_heartbeat_unthrottled(S0, device_id, current_time) ==
    LET Body(S) ==
        LET S1 == [S EXCEPT !.heartbeat_cache =
                      Put(@, device_id, [timestamp |-> current_time])]
            S2 == publish_mqtt(S1, Event("heartbeat", device_id))
        IN  publish_status(S2, device_id, "online", current_time)
    IN  ByValue({Body(x) : x \in {S0}})

\* JT808Server._publish_heartbeat
publish_heartbeat(S0, device_id, current_time) ==
    LET Body(S) ==
        LET should_publish ==
                ~(device_id \in DOMAIN S.heartbeat_cache
                  /\ current_time - S.heartbeat_cache[device_id].timestamp
                     < heartbeat_interval)
            S1 == [S EXCEPT !.heartbeat_cache =
                      Put(@, device_id, [timestamp |-> current_time])]
            S2 == IF should_publish THEN publish_mqtt(S1, Event("heartbeat", device_id))
                  ELSE S1
        IN  publish_status(S2, device_id, "online", current_time)
    IN  ByValue({Body(x) : x \in {S0}})

\* JT808Server._publish_logout
publish_logout(S, device_id, current_time) ==
    publish_status(publish_mqtt(S, Event("logout", device_id)), device_id,
                   "offline", current_time)

\* lines 749-754 of _publish_location: the activity level of a speed field
ActivityLevel(speed) ==
    IF speed > 20 THEN "fast_moving"
    ELSE IF speed > 5 THEN "walking"
    ELSE "resting"

\* the variant of the dual gate whose else branch clears should_publish
LocationShouldPublish_gated(time_diff, distance, min_interval, min_distance) ==
    IF throttle_duplicates
    THEN time_diff >= min_interval /\ distance >= min_distance
    ELSE TRUE

\* lines 771-804 of _publish_location: should_publish.  It starts True (line
\* 772); when both thresholds are met it is assigned True (line 793); the
\* other branch (lines 794-804) builds a log line and assigns nothing.
LocationShouldPublish(time_diff, distance, min_interval, min_distance) ==
    IF throttle_duplicates
    THEN IF time_diff >= min_interval /\ distance >= min_distance
         THEN TRUE
         ELSE TRUE
    ELSE TRUE

\* struct.unpack('>I', b)[0] for the four bytes of b starting at (1-based) i
UnpackI(b, i) == UnpackH(b, i) * 65536 + UnpackH(b, i + 2)

\* struct.pack('>I', v)
PackI(v) == PackH(v \div 65536) \o PackH(v % 65536)

\* JT808Server._publish_location
publish_location(S0, device_id, message, current_time) ==
    LET Body(S) ==
        IF Len(message.body) < 28 THEN S
        ELSE
        LET body == message.body
            status == UnpackI(body, 5)
            lat_value == UnpackI(body, 9)
            lon_value == UnpackI(body, 13)
            speed == UnpackH(body, 19)
            lat0 == dms_to_decimal(lat_value)
            lon0 == dms_to_decimal(lon_value)
            latitude == IF BitAnd(status, LAT_SOUTH) # 0 THEN -lat0 ELSE lat0
            longitude == IF BitAnd(status, LON_WEST) # 0 THEN -lon0 ELSE lon0
            activity_level == ActivityLevel(speed)
            \* the state of a device seen for the first time
            state0 == IF device_id \in DOMAIN S.device_state
                      THEN S.device_state[device_id]
                      ELSE [lat |-> latitude, lon |-> longitude, last_pub_time |-> 0,
                            activity |-> activity_level]
            should_publish ==
                LocationShouldPublish(
                    current_time - state0.last_pub_time,
                    calculate_distance(state0.lat, state0.lon, latitude, longitude),
                    ThresholdInterval(activity_level),
                    ThresholdDistance(activity_level))
            \* the coordinates are stored whether or not the report is published
            state1 == [lat |-> latitude, lon |-> longitude,
                       last_pub_time |-> IF should_publish THEN current_time
                                         ELSE state0.last_pub_time,
                       activity |-> activity_level]
            S1 == [S EXCEPT !.device_state = Put(@, device_id, state1)]
        IN  IF ~should_publish THEN S1
            ELSE publish_status(
                     publish_mqtt(S1, [Event("location", device_id) EXCEPT
                                          !.latitude = latitude,
                                          !.longitude = longitude,
                                          !.speed = speed]),
                     device_id, "online", current_time)
    IN  ByValue({Body(x) : x \in {S0}})

\* bytes.decode('utf-8') with the hex fallback of the handlers; the model
\* decodes ASCII only, any other byte string takes the fallback
DecodeText(data) == IF IsAscii(data) THEN data ELSE HexString(data)

\* the variant of _publish_registration that does not consult
\* registration_cache
publish_registration_uncached(S0, device_id, message, current_time) ==
    LET Body(S) ==
        IF Len(message.body) < 37 THEN S
        ELSE publish_status(
                 publish_mqtt([S EXCEPT !.registration_cache =
                                  Put(@, device_id, [registered |-> TRUE,
                                                     timestamp |-> current_time])],
                              Event("registration", device_id)),
                 device_id, "online", current_time)
    IN  ByValue({Body(x) : x \in {S0}})

\* JT808Server._publish_registration
publish_registration(S0, device_id, message, current_time) ==
    LET Body(S) ==
        IF Len(message.body) < 32 THEN S
        ELSE IF Len(message.body) < 37 THEN S   \* body[36] raises, caught and logged
        ELSE
        LET should_publish == ~(device_id \in DOMAIN S.registration_cache)
            S1 == [S EXCEPT !.registration_cache =
                      Put(@, device_id, [registered |-> TRUE, timestamp |-> current_time])]
            S2 == IF should_publish THEN publish_mqtt(S1, Event("registration", device_id))
                  ELSE S1
        IN  publish_status(S2, device_id, "online", current_time)
    IN  ByValue({Body(x) : x \in {S0}})

\* the variant of _publish_authentication that does not consult auth_cache
publish_authentication_uncached(S0, device_id, message, current_time) ==
    LET Body(S) ==
        IF Len(message.body) < 1 THEN S
        ELSE
        LET auth_len == message.body[1]
            auth_code == IF 1 + auth_len <= Len(message.body)
                         THEN DecodeText(Slice(message.body, 1, 1 + auth_len))
                         ELSE <<>>
        IN  publish_status(
                publish_mqtt([S EXCEPT !.auth_cache =
                                 Put(@, device_id, [auth_code |-> auth_code,
                                                    timestamp |-> current_time])],
                             [Event("authentication", device_id) EXCEPT
                                 !.auth_code = auth_code]),
                device_id, "online", current_time)
    IN  ByValue({Body(x) : x \in {S0}})

\* the variant of _publish_authentication without the check of the body
\* length: an empty body counts as the code ""
publish_authentication_unchecked(S0, device_id, message, current_time) ==
    LET Body(S) ==
        LET auth_len == IF Len(message.body) < 1 THEN 0 ELSE message.body[1]
            auth_code == IF 1 + auth_len <= Len(message.body)
                         THEN DecodeText(Slice(message.body, 1, 1 + auth_len))
                         ELSE <<>>
            should_publish == ~(device_id \in DOMAIN S.auth_cache
                                /\ S.auth_cache[device_id].auth_code = auth_code)
            S1 == [S EXCEPT !.auth_cache =
                      Put(@, device_id, [auth_code |-> auth_code, timestamp |-> current_time])]
            S2 == IF should_publish
                  THEN publish_mqtt(S1, [Event("authentication", device_id) EXCEPT
                                            !.auth_code = auth_code])
                  ELSE S1
        IN  publish_status(S2, device_id, "online", current_time)
    IN  ByValue({Body(x) : x \in {S0}})

\* JT808Server._publish_authentication
publish_authentication(S0, device_id, message, current_time) ==
    LET Body(S) ==
        IF Len(message.body) < 1 THEN S
        ELSE
        LET auth_len == message.body[1]
            auth_code == IF 1 + auth_len <= Len(message.body)
                         THEN DecodeText(Slice(message.body, 1, 1 + auth_len))
                         ELSE <<>>
            should_publish == ~(device_id \in DOMAIN S.auth_cache
                                /\ S.auth_cache[device_id].auth_code = auth_code)
            S1 == [S EXCEPT !.auth_cache =
                      Put(@, device_id, [auth_code |-> auth_code, timestamp |-> current_time])]
            S2 == IF should_publish
                  THEN publish_mqtt(S1, [Event("authentication", device_id) EXCEPT
                                            !.auth_code = auth_code])
                  ELSE S1
        IN  publish_status(S2, device_id, "online", current_time)
    IN  ByValue({Body(x) : x \in {S0}})

\* JT808Server._publish_batch_location
publish_batch_location(S0, device_id, message, current_time) ==
    LET Body(S) ==
        IF Len(message.body) < 3 THEN S
        ELSE publish_status(publish_mqtt(S, Event("batch_location", device_id)),
                            device_id, "online", current_time)
    IN  ByValue({Body(x) : x \in {S0}})

-----------------------------------------------------------------------------
(* JT808Server: responses and dispatch.  S.writes collects the frames the  *)
(* call wrote to the client socket with sendall().                         *)

\* _send_general_response, line 427: the result code written
GeneralResponseResult(result) == 0

\* JT808Server._send_general_response
send_general_response(S0, message, result) ==
    LET Body(S) ==
        LET body == PackH(message.msg_serial_no) \o PackH(message.msg_id)
                    \o <<GeneralResponseResult(result)>>
            response == Message(PLATFORM_GENERAL_RESPONSE, message.phone_no, body, 0,
                                FALSE, FALSE, NoInfo)
        IN  \* an exception of sendall() is caught and logged
            IF S.sendall_raises THEN S
            ELSE [S EXCEPT !.writes = @ \o <<Encode(response)>>]
    IN  ByValue({Body(x) : x \in {S0}})

\* JT808Server._send_registration_response
send_registration_response(S0, message, result, auth_code) ==
    LET Body(S) ==
        LET auth_bytes == AuthCode123456
            body == PackH(message.msg_serial_no) \o <<0>> \o <<Len(auth_bytes)>>
                    \o auth_bytes
            response == Message(TERMINAL_REGISTRATION_RESPONSE, message.phone_no, body, 0,
                                FALSE, FALSE, NoInfo)
        IN  \* an exception of sendall() is caught and logged
            IF S.sendall_raises THEN S
            ELSE [S EXCEPT !.writes = @ \o <<Encode(response)>>]
    IN  ByValue({Body(x) : x \in {S0}})

\* JT808Server._process_message
process_message(S, device_id, message, current_time) ==
    CASE message.msg_id = TERMINAL_HEARTBEAT ->
            publish_heartbeat(send_general_response(S, message, 0), device_id,
                              current_time)
      [] message.msg_id = TERMINAL_REGISTRATION ->
            publish_registration(
                send_registration_response(S, message, 0, AuthCode123456),
                device_id, message, current_time)
      [] message.msg_id = TERMINAL_AUTH ->
            publish_authentication(send_general_response(S, message, 0), device_id,
                                   message, current_time)
      [] message.msg_id = LOCATION_REPORT ->
            publish_location(send_general_response(S, message, 0), device_id,
                             message, current_time)
      [] message.msg_id = BATCH_LOCATION_UPLOAD ->
            publish_batch_location(send_general_response(S, message, 0), device_id,
                                   message, current_time)
      [] message.msg_id = TERMINAL_LOGOUT ->
            publish_logout(send_general_response(S, message, 0), device_id,
                           current_time)
      [] OTHER -> send_general_response(S, message, 3)

-----------------------------------------------------------------------------
(* JT808Server: sessions                                                   *)

\* device_id = None
NoDevice == <<>>

\* bytearray.find(b'\x7e', start): 0-based index, or -1
Find7e(buffer, start) ==
    LET hits == {i \in (start + 1)..Len(buffer) : buffer[i] = 126}
    IN  IF hits = {} THEN -1
        ELSE (CHOOSE i \in hits : \A j \in hits : i <= j) - 1

\* the variant of lines 305-327 that takes the device id of every decoded
\* frame
HandleFrame_reassigning(st, message_data, current_time) ==
    LET Dispatch(d) ==
            LET device_id1 == IF d.ok THEN d.msg.phone_no
                              ELSE st.device_id
                Clean == [st.S EXCEPT !.events = <<>>, !.writes = <<>>]
                Result(S1) ==
                    [S |-> [S1 EXCEPT !.events = st.S.events \o S1.events,
                                      !.writes = st.S.writes \o S1.writes],
                     device_id |-> device_id1,
                     log |-> Append(st.log,
                                    [data |-> message_data, dispatched |-> d.ok,
                                     writes |-> S1.writes, events |-> S1.events])]
            IN  ByValue({Result(r) : r \in {
                        IF d.ok
                        THEN process_message(Clean,
                                             IF device_id1 = NoDevice THEN Unknown
                                             ELSE device_id1,
                                             d.msg, current_time)
                        ELSE Clean}})
    IN  ByValue({Dispatch(x) : x \in {Decode(message_data)}})

\* lines 305-327 of _process_buffer: one extracted frame is decoded and
\* dispatched.  st = [S, device_id, log]; log gets one entry per frame.
HandleFrame(st, message_data, current_time) ==
    LET Dispatch(d) ==
            LET device_id1 == IF d.ok /\ st.device_id = NoDevice THEN d.msg.phone_no
                              ELSE st.device_id
                Clean == [st.S EXCEPT !.events = <<>>, !.writes = <<>>]
                Result(S1) ==
                    [S |-> [S1 EXCEPT !.events = st.S.events \o S1.events,
                                      !.writes = st.S.writes \o S1.writes],
                     device_id |-> device_id1,
                     log |-> Append(st.log,
                                    [data |-> message_data, dispatched |-> d.ok,
                                     writes |-> S1.writes, events |-> S1.events])]
            IN  ByValue({Result(r) : r \in {
                        IF d.ok
                        THEN process_message(Clean,
                                             IF device_id1 = NoDevice THEN Unknown
                                             ELSE device_id1,
                                             d.msg, current_time)
                        ELSE Clean}})
    IN  ByValue({Dispatch(x) : x \in {Decode(message_data)}})

RECURSIVE ProcessBuffer(_, _, _)
\* JT808Server._process_buffer: the while loop.  loop = [buffer, st]: buffer
\* is the value of the local `buffer`; alias tells whether it is still the
\* bytearray that the _handle_client thread extends (a slice binds `buffer`
\* to a new bytearray).  Returns [buffer, cleared, st]: what
\* self.clients[sock]['buffer'] holds on return, and whether the thread's
\* bytearray was cleared in place.
ProcessBuffer(loop0, alias, current_time) ==
    LET Body(loop) ==
        LET buffer == loop.buffer
            start_idx == Find7e(buffer, 0)
            buffer1 == From(buffer, start_idx)
            end_idx == Find7e(buffer1, 1)
        IN  IF Len(buffer) <= 2
            THEN [buffer |-> buffer, cleared |-> FALSE, st |-> loop.st]
            ELSE IF start_idx = -1
            THEN [buffer |-> <<>>, cleared |-> alias, st |-> loop.st]
            ELSE IF end_idx = -1
            THEN [buffer |-> buffer1, cleared |-> FALSE, st |-> loop.st]
            ELSE ProcessBuffer(
                     [buffer |-> From(buffer1, end_idx + 1),
                      st |-> HandleFrame(loop.st, Slice(buffer1, 0, end_idx + 1),
                                         current_time)],
                     FALSE, current_time)
    IN  ByValue({Body(x) : x \in {loop0}})

\* the caches of the server as one record, and their update
Srv ==
    [device_state |-> device_state, status_cache |-> status_cache,
     heartbeat_cache |-> heartbeat_cache, auth_cache |-> auth_cache,
     registration_cache |-> registration_cache, connected |-> mqtt_connected,
     sendall_raises |-> FALSE, events |-> <<>>, writes |-> <<>>]

SetSrv(S) ==
    /\ device_state' = S.device_state
    /\ status_cache' = S.status_cache
    /\ heartbeat_cache' = S.heartbeat_cache
    /\ auth_cache' = S.auth_cache
    /\ registration_cache' = S.registration_cache

-----------------------------------------------------------------------------
(* Bounds and inputs                                                       *)

\* sockets the listener may accept
NumSockets == 1
\* frames a peer writes on one connection
MaxFrames == 2
\* recv() calls that return data on one connection
MaxRecvs == 3
\* clock advances in one behaviour
MaxTicks == 1

\* handler threads (one per session) that submit status for one device
NumThreads == 2

Sockets == 1..NumSockets

Threads == 1..NumThreads

\* client_socket.recv(1024)
RecvSize == 1024

\* sizes of the chunks recv() returns
ChunkSizes == {1, 9, RecvSize}

\* seconds by which the clock advances between two calls
TickSteps == {4, 5, 30, 300}

\* time.time() when the server is constructed
StartTime == 1700000000

\* device ids: "123456789012" and "013800138000"
DeviceA == <<49, 50, 51, 52, 53, 54, 55, 56, 57, 48, 49, 50>>
DeviceB == <<48, 49, 51, 56, 48, 48, 49, 51, 56, 48, 48, 48>>

\* the frames given to the codec
CodecFrames ==
    {Message(id, ph, b, sn, sub # NoInfo, enc, sub) :
        id \in {TERMINAL_HEARTBEAT, LOCATION_REPORT}, ph \in {DeviceA, DeviceB},
        b \in {<<>>, <<5>>, <<0, 126, 125, 255>>}, sn \in {1, 65534},
        sub \in {NoInfo, <<3, 1>>}, enc \in {FALSE, TRUE}}

\* a frame with one bit of its byte i (1-based) flipped
FlipBit(data, i) == [data EXCEPT ![i] = BitXor(@, 1)]

\* the frames a terminal writes to its connection: a heartbeat, a message of
\* an id the server does not know (0x0999), and a heartbeat whose checksum
\* byte was damaged
HeartbeatFrame == Encode(Message(TERMINAL_HEARTBEAT, DeviceA, <<>>, 1, FALSE, FALSE, NoInfo))
UnknownFrame == Encode(Message(2457, DeviceA, <<>>, 2, FALSE, FALSE, NoInfo))
DamagedFrame == FlipBit(HeartbeatFrame, Len(HeartbeatFrame) - 1)
PeerFrames == {HeartbeatFrame, UnknownFrame, DamagedFrame}

-----------------------------------------------------------------------------
(* Observers of the bus                                                    *)

\* the last of the indices hits, or 0
LastIndex(hits) ==
    IF hits = {} THEN 0 ELSE CHOOSE i \in hits : \A j \in hits : j <= i

\* last_offline after a call passed those of events that are sent to
\* mqtt_client.publish at time t
ObserveOffline(lo, events, t) ==
    LET devs == {events[i].device_id : i \in {j \in 1..Len(events) :
                     /\ events[j].sent
                     /\ events[j].kind = "status" /\ events[j].status = "offline"}}
    IN  [d \in (DOMAIN lo) \cup devs |-> IF d \in devs THEN t ELSE lo[d]]

\* last_pub_loc after a call passed those of events that are sent to
\* mqtt_client.publish at time t
ObserveLocation(lp, events, t) ==
    LET devs == {events[i].device_id : i \in {j \in 1..Len(events) :
                     events[j].sent /\ events[j].kind = "location"}}
    IN  [d \in (DOMAIN lp) \cup devs |->
            IF d \in devs
            THEN LET IsLoc(e) == e.sent /\ e.kind = "location" /\ e.device_id = d
                     e == events[LastIndex({i \in 1..Len(events) : IsLoc(events[i])})]
                 IN  [t |-> t, latitude |-> e.latitude, longitude |-> e.longitude]
            ELSE lp[d]]

\* last_pub_hb after a call passed those of events that are sent to
\* mqtt_client.publish at time t
ObserveHeartbeat(lh, events, t) ==
    LET devs == {events[i].device_id : i \in {j \in 1..Len(events) :
                     events[j].sent /\ events[j].kind = "heartbeat"}}
    IN  [d \in (DOMAIN lh) \cup devs |-> IF d \in devs THEN t ELSE lh[d]]

-----------------------------------------------------------------------------
(* Initial state: a constructed server, no connection, the bus not yet     *)
(* connected                                                               *)

\* no gate call yet.  A call records its op, device and report; the status it
\* submitted to _publish_status with what the cache held before (cached,
\* since: seconds since the cached timestamp, -1 if none); first: the device
\* had no gate state; time: time.time() of the call; events: what the call
\* handed to _publish_mqtt; flip alternates so that no call is a stutter;
\* auth_code: the code the terminal put into an authentication body
NoCall == [op |-> "none", device_id |-> <<>>, status |-> "", cached |-> "", since |-> -1, latitude |-> 0, longitude |-> 0, speed |-> 0, wellformed |-> FALSE, first |-> FALSE, time |-> 0, events |-> <<>>, flip |-> 0, auth_code |-> <<>>]

\* a handler thread that is not inside _publish_status
IdleThread == [pc |-> "idle", device_id |-> <<>>, status |-> "", current_time |-> 0, should_publish |-> FALSE]

\* JT808Server.__init__: no server socket, no accept thread; stop() not
\* called.  socket is self.server_socket; pc is the position of the accept
\* thread ("accept": in server_socket.accept(), "insert": accept() returned
\* the connection conn, "done": the loop has ended); stop is the position of
\* the thread in stop() and pending the sessions it has still to close;
\* failures counts the accept() calls that raised, and after_failure holds
\* the connections accepted after one
NoListener ==
    [socket |-> "none", pc |-> "none", conn |-> 0, stop |-> "idle", pending |-> {},
     failures |-> 0, after_failure |-> {}]

\* JT808Server.start, lines 153-165: the socket listens and the accept thread
\* runs
Listening == [NoListener EXCEPT !.socket = "listening", !.pc = "accept"]

\* JT808Protocol.auth_code = None
NoCode == <<-1>>

\* GPSTrackingSimulator.__init__ with JT808Protocol.__init__: nothing runs.
\* pc is the position of the _connection_manager thread; connected,
\* authenticated, auth_code and msg_serial_no are the fields of the protocol
\* object; outbox holds the messages written to the socket that the platform
\* has not read, inbox the frames that reached the socket and that the
\* receive thread has not read, rx the frames of the gateway that reached
\* the socket; conn numbers the connections; delay is the last sleep after a
\* failed connect and fails the failed attempts since the last connect.
\* The other fields record what happened: the connection on which the last
\* registration (reg_conn) and authentication (auth_conn) were written and
\* on which auth_code (code_conn) and authenticated (authd_conn) were last
\* set, whether a general response set authenticated (acked), whether a
\* registration response was handled (reg_handled), the last connection a
\* heartbeat was written to (data_conn), and what _start_data_threads found
\* (started).  loc holds the fields and locals of _location_loop once that
\* thread runs.
NoSim ==
    [pc |-> "none", device_id |-> <<>>, connected |-> FALSE, authenticated |-> FALSE,
     auth_code |-> NoCode, msg_serial_no |-> 0, outbox |-> <<>>, inbox |-> <<>>, rx |-> 0,
     conn |-> 0, threads_started |-> FALSE, backoff_time |-> 5, delay |-> 0, fails |-> 0,
     reg_conn |-> 0, auth_conn |-> 0, code_conn |-> 0, authd_conn |-> 0, acked |-> FALSE,
     reg_handled |-> FALSE, data_conn |-> 0, started |-> <<>>, loc |-> <<>>,
     serial_calls |-> <<>>]

InitCodecIdle ==
    /\ frame = NoMessage
    /\ wire = <<>>
    /\ decoded = Raised
    /\ cpc = "idle"

\* JT808Server.__init__
ServerAtRest ==
    /\ running = FALSE
    /\ clients = EmptyDict
    /\ hbuf = EmptyDict
    /\ inflight = [s \in Sockets |-> <<>>]
    /\ sent = [s \in Sockets |-> <<>>]
    /\ handled = [s \in Sockets |-> <<>>]
    /\ recvs = [s \in Sockets |-> 0]
    /\ peer_sent = [s \in Sockets |-> <<>>]
    /\ broken = {}
    /\ closes = [s \in Sockets |-> 0]
    /\ submits = [s \in Sockets |-> 0]
    /\ device_state = EmptyDict
    /\ status_cache = EmptyDict
    /\ heartbeat_cache = EmptyDict
    /\ auth_cache = EmptyDict
    /\ registration_cache = EmptyDict
    /\ mqtt_connected = FALSE
    /\ now = StartTime
    /\ ticks = 0
    /\ call = NoCall
    /\ last_pub_loc = EmptyDict
    /\ last_offline = EmptyDict
    /\ last_pub_hb = EmptyDict
    /\ threads = [t \in Threads |-> IdleThread]
    /\ listener = NoListener

InitServer == ServerAtRest /\ sim = NoSim

Init == InitCodecIdle /\ InitServer

-----------------------------------------------------------------------------
(* SpecCodec: encode, transit, decode                                      *)

InitCodec ==
    /\ frame \in CodecFrames
    /\ wire = <<>>
    /\ decoded = Raised
    /\ cpc = "start"
    /\ InitServer

\* Message.encode
EncodeStep ==
    /\ cpc = "start"
    /\ wire' = Encode(frame)
    /\ cpc' = "encoded"
    /\ UNCHANGED <<threads, listener, sim, frame, decoded, sessionVars, cacheVars, gateVars>>

\* one bit of one byte between the framing bytes is flipped in transit
Damage(i) ==
    /\ cpc = "encoded"
    /\ wire = Encode(frame)
    /\ wire' = FlipBit(wire, i)
    /\ UNCHANGED <<threads, listener, sim, frame, decoded, cpc, sessionVars, cacheVars, gateVars>>

\* Message.decode
DecodeStep ==
    /\ cpc = "encoded"
    /\ decoded' = Decode(wire)
    /\ cpc' = "decoded"
    /\ UNCHANGED <<threads, listener, sim, frame, wire, sessionVars, cacheVars, gateVars>>

NextCodec ==
    \/ EncodeStep
    \/ \E i \in 2..(Len(wire) - 1) : Damage(i)
    \/ DecodeStep

SpecCodec == InitCodec /\ [][NextCodec]_vars

-----------------------------------------------------------------------------
(* SpecEscape: apply_escape_rules and remove_escape_rules on byte strings  *)

\* length of the byte strings given to apply_escape_rules
MaxEscapeLen == 4

\* the bytes of those strings: the two escaped bytes, the two bytes that
\* follow 0x7d in an escape, and one other byte
EscapeBytes == {0, 1, 2, 125, 126}

RECURSIVE ByteStrings(_)
\* the byte strings of length n over EscapeBytes
ByteStrings(n) ==
    IF n = 0 THEN {<<>>}
    ELSE {Append(b, x) : b \in ByteStrings(n - 1), x \in EscapeBytes}

\* frame.body holds the byte string b, wire what the functions make of it
InitEscape ==
    /\ \E n \in 0..MaxEscapeLen : \E b \in ByteStrings(n) :
           frame = [NoMessage EXCEPT !.body = b]
    /\ wire = <<>>
    /\ decoded = Raised
    /\ cpc = "start"
    /\ InitServer

\* apply_escape_rules(b)
EscapeStep ==
    /\ cpc = "start"
    /\ wire' = apply_escape_rules(frame.body)
    /\ cpc' = "escaped"
    /\ UNCHANGED <<threads, listener, sim, frame, decoded, sessionVars, cacheVars, gateVars>>

\* remove_escape_rules of the escaped string
UnescapeStep ==
    /\ cpc = "escaped"
    /\ wire' = remove_escape_rules(wire)
    /\ cpc' = "unescaped"
    /\ UNCHANGED <<threads, listener, sim, frame, decoded, sessionVars, cacheVars, gateVars>>

NextEscape ==
    \/ EscapeStep
    \/ UnescapeStep

SpecEscape == InitEscape /\ [][NextEscape]_vars

-----------------------------------------------------------------------------
(* SpecDecode: Message.decode on short framed inputs                       *)

\* what follows the bytes drawn for a framed input: nothing, or ten bytes
\* "0" that complete a header
InputTails == {<<>>, [i \in 1..10 |-> 48]}

\* wire holds a framed input: 0x7e, up to MaxEscapeLen bytes of EscapeBytes,
\* a tail, 0x7e
InitDecode ==
    /\ frame = NoMessage
    /\ \E n \in 0..MaxEscapeLen : \E b \in ByteStrings(n) : \E t \in InputTails :
           wire = <<126>> \o b \o t \o <<126>>
    /\ decoded = Raised
    /\ cpc = "encoded"
    /\ InitServer

NextDecode == DecodeStep

SpecDecode == InitDecode /\ [][NextDecode]_vars

-----------------------------------------------------------------------------
(* SpecAttr: Message.encode and Message.decode on bodies up to 1024 bytes  *)

\* length of the longest body given to the constructor
MaxBodyLen == 1024

\* the frames given to the codec: bodies of zero bytes
AttrFrames ==
    {Message(id, DeviceA, [i \in 1..n |-> 0], sn, sub # NoInfo, enc, sub) :
        id \in {TERMINAL_HEARTBEAT, LOCATION_REPORT},
        n \in {0, 1, MaxBodyLen - 1, MaxBodyLen}, sn \in {1, 65534},
        sub \in {NoInfo, <<3, 1>>}, enc \in {FALSE, TRUE}}

InitAttr ==
    /\ frame \in AttrFrames
    /\ wire = <<>>
    /\ decoded = Raised
    /\ cpc = "start"
    /\ InitServer

NextAttr ==
    \/ EncodeStep
    \/ DecodeStep

SpecAttr == InitAttr /\ [][NextAttr]_vars

-----------------------------------------------------------------------------
(* SpecReport: Message.create_location_report and the parse of its body by *)
(* _publish_location.  Coordinates are whole arc seconds, as in Geo.       *)

\* jt808.utils.decimal_to_dms of a non-negative coordinate
decimal_to_dms(arc_seconds) ==
    LET degrees == arc_seconds \div 3600
        minutes == (arc_seconds % 3600) \div 60
        seconds == arc_seconds % 60
    IN  degrees * 1000000 + minutes * 10000 + seconds * 100

\* Message.create_location_report: struct.pack('>IIIIHHBBBBB', ...) followed
\* by the minute and second bytes and the additional items; timestamp is the
\* six bytes the twelve BCD digits stand for.  Format B raises for a
\* direction above 255.
create_location_report(phone_no, r, msg_serial_no) ==
    LET lat_value == decimal_to_dms(Abs(r.latitude))
        lon_value == decimal_to_dms(Abs(r.longitude))
        south == IF r.latitude < 0 /\ BitAnd(r.status, 4) = 0 THEN 4 ELSE 0
        west == IF r.longitude < 0 /\ BitAnd(r.status, 8) = 0 THEN 8 ELSE 0
        status == r.status + south + west
        item(info) == IF info[1] = 1 THEN <<1, 4>> \o PackI(info[2])
                      ELSE IF info[1] \in {2, 3, 4} THEN <<info[1], 2>> \o PackH(info[2])
                      ELSE <<info[1], 4>> \o PackI(info[2])
        basic == PackI(r.alarm_flag) \o PackI(status) \o PackI(lat_value)
                 \o PackI(lon_value) \o PackH(r.altitude) \o PackH(r.speed)
                 \o <<r.direction>> \o Slice(r.timestamp, 0, 4)
                 \o Slice(r.timestamp, 4, 6)
        body == IF r.additional_info = <<>> THEN basic
                ELSE basic \o item(r.additional_info)
    IN  IF r.direction > 255 THEN Raised
        ELSE [ok |-> TRUE,
              msg |-> Message(LOCATION_REPORT, phone_no, body, msg_serial_no,
                              FALSE, FALSE, NoInfo)]

\* lines 721-748 of _publish_location: the fields read from message.body
parse_location(body) ==
    IF Len(body) < 28 THEN Raised
    ELSE LET status == UnpackI(body, 5)
             lat0 == dms_to_decimal(UnpackI(body, 9))
             lon0 == dms_to_decimal(UnpackI(body, 13))
         IN  [ok |-> TRUE,
              msg |-> [alarm_flag |-> UnpackI(body, 1),
                       status |-> status,
                       latitude |-> IF BitAnd(status, LAT_SOUTH) # 0 THEN -lat0 ELSE lat0,
                       longitude |-> IF BitAnd(status, LON_WEST) # 0 THEN -lon0 ELSE lon0,
                       altitude |-> UnpackH(body, 17),
                       speed |-> UnpackH(body, 19),
                       direction |-> UnpackH(body, 21),
                       timestamp |-> Slice(body, 22, 28)]]

\* the arguments given to create_location_report: 39 deg 30' north or
\* south on the meridian of 116 deg east, 24-11-02 10:30:00
ReportArguments ==
    [alarm_flag : {0, 1}, status : {0, 2}, latitude : {142200, -142200},
     longitude : {417600}, altitude : {0, 50}, speed : {0, 100},
     direction : {0, 90, 270}, timestamp : {<<36, 17, 2, 16, 48, 0>>},
     additional_info : {<<>>, <<1, 5>>}]

InitReport ==
    /\ frame = NoMessage
    /\ wire = <<>>
    /\ decoded = Raised
    /\ cpc = "start"
    /\ ServerAtRest
    /\ \E r \in ReportArguments : sim = [NoSim EXCEPT !.loc = r]

\* the simulator builds the report of its position
CreateReport ==
    /\ cpc = "start"
    /\ decoded' = create_location_report(DeviceA, sim.loc, 1)
    /\ frame' = decoded'.msg
    /\ cpc' = IF decoded'.ok THEN "created" ELSE "failed"
    /\ UNCHANGED <<wire, listener, sim, sessionVars, cacheVars, gateVars, threads>>

\* the gateway reads the fields of the report's body
ParseReport ==
    /\ cpc = "created"
    /\ decoded' = parse_location(frame.body)
    /\ cpc' = "parsed"
    /\ UNCHANGED <<frame, wire, listener, sim, sessionVars, cacheVars, gateVars, threads>>

NextReport ==
    \/ CreateReport
    \/ ParseReport

SpecReport == InitReport /\ [][NextReport]_vars

-----------------------------------------------------------------------------
(* Spec: the listener, the sessions and their peers                        *)

\* JT808Server.start
Start ==
    /\ ~running
    /\ running' = TRUE
    /\ listener' = Listening
    /\ UNCHANGED <<threads, clients, hbuf, inflight, sent, handled, recvs, peer_sent,
                   broken, closes, submits, codecVars, sim, cacheVars, gateVars>>

\* JT808Server._accept_connections: one accepted connection and its thread
Accept(s) ==
    /\ running
    /\ s \notin DOMAIN hbuf
    /\ clients' = Put(clients, s, [buffer |-> <<>>, device_id |-> NoDevice])
    /\ hbuf' = Put(hbuf, s, <<>>)
    /\ UNCHANGED <<threads, running, inflight, sent, handled, recvs, peer_sent,
                   broken, closes, submits, codecVars, listener, sim, cacheVars, gateVars>>

\* the terminal writes one frame to its connection
PeerSend(s, f) ==
    /\ s \in DOMAIN clients
    /\ Len(peer_sent[s]) < MaxFrames
    /\ inflight' = [inflight EXCEPT ![s] = @ \o f]
    /\ peer_sent' = [peer_sent EXCEPT ![s] = Append(@, f)]
    /\ UNCHANGED <<threads, running, clients, hbuf, sent, handled, recvs,
                   broken, closes, submits, codecVars, listener, sim, cacheVars, gateVars>>

\* JT808Server._handle_client: one pass of the loop in which recv() returns
\* the next k bytes (or all that is there), with _process_buffer
RecvData(s, k) ==
    /\ running
    /\ s \in DOMAIN clients
    /\ inflight[s] # <<>>
    /\ LET n == Min(k, Len(inflight[s]))
           buffer == hbuf[s] \o SubSeq(inflight[s], 1, n)
       IN  \E r \in {ProcessBuffer([buffer |-> buffer,
                                    st |-> [S |-> [Srv EXCEPT !.sendall_raises =
                                                                  s \in broken],
                                            device_id |-> clients[s].device_id,
                                            log |-> <<>>]],
                                   TRUE, now)} :
           /\ inflight' = [inflight EXCEPT ![s] = From(@, n)]
           /\ hbuf' = [hbuf EXCEPT ![s] = IF r.cleared THEN <<>> ELSE buffer]
           /\ clients' = [clients EXCEPT ![s] =
                             [buffer |-> r.buffer, device_id |-> r.st.device_id]]
           /\ sent' = [sent EXCEPT ![s] = @ \o r.st.S.writes]
           /\ handled' = [handled EXCEPT ![s] = @ \o r.st.log]
           /\ recvs' = [recvs EXCEPT ![s] = @ + 1]
           /\ SetSrv(r.st.S)
           /\ last_offline' = ObserveOffline(last_offline, r.st.S.events, now)
           /\ last_pub_loc' = ObserveLocation(last_pub_loc, r.st.S.events, now)
           /\ last_pub_hb' = ObserveHeartbeat(last_pub_hb, r.st.S.events, now)
    /\ UNCHANGED <<threads, running, peer_sent, broken, closes, submits, codecVars, listener, sim,
                   mqtt_connected, now, ticks, call>>

\* the iterations of the read loop that a behaviour of the model holds
Recv(s, k) ==
    /\ recvs[s] < MaxRecvs
    /\ RecvData(s, k)

\* JT808Server._close_client
close_client(S, s, current_time) ==
    IF clients[s].device_id # NoDevice
    THEN publish_status(S, clients[s].device_id, "offline", current_time)
    ELSE S

\* _close_client called by the handler thread of s: the status is submitted
\* if the session has a device, the socket is closed, the session is deleted
CloseClient(s) ==
    /\ \E S1 \in {close_client(Srv, s, now)} :
           /\ SetSrv(S1)
           /\ last_offline' = ObserveOffline(last_offline, S1.events, now)
    /\ submits' = [submits EXCEPT ![s] =
                      IF clients[s].device_id # NoDevice THEN @ + 1 ELSE @]
    /\ closes' = [closes EXCEPT ![s] = @ + 1]
    /\ clients' = Del(clients, s)
    /\ UNCHANGED <<threads, running, hbuf, inflight, sent, handled, recvs, peer_sent,
                   broken, codecVars, sim, mqtt_connected, now, ticks, call, last_pub_loc,
                   last_pub_hb>>

\* _close_client called by the thread of the session
CloseSession(s) ==
    /\ CloseClient(s)
    /\ UNCHANGED listener

\* JT808Server._handle_client: the peer closed, recv() returns b''
RecvEOF(s) ==
    /\ running
    /\ s \in DOMAIN clients
    /\ inflight[s] = <<>>
    /\ CloseSession(s)

\* JT808Server._handle_client: recv() raises (the connection was reset); the
\* bytes not yet read are lost
RecvError(s) ==
    /\ running
    /\ s \in DOMAIN clients
    /\ inflight[s] # <<>>
    /\ CloseSession(s)

\* on_connect
OnConnect ==
    /\ ~mqtt_connected
    /\ mqtt_connected' = TRUE
    /\ UNCHANGED <<threads, codecVars, listener, sim, sessionVars, cacheVars, now, ticks, call,
                   last_pub_loc, last_offline, last_pub_hb>>

\* on_disconnect
OnDisconnect ==
    /\ mqtt_connected
    /\ mqtt_connected' = FALSE
    /\ UNCHANGED <<threads, codecVars, listener, sim, sessionVars, cacheVars, now, ticks, call,
                   last_pub_loc, last_offline, last_pub_hb>>

Next ==
    \/ Start
    \/ \E s \in Sockets : Accept(s)
    \/ \E s \in Sockets, f \in PeerFrames : PeerSend(s, f)
    \/ \E s \in Sockets, k \in ChunkSizes : Recv(s, k)
    \/ \E s \in Sockets : RecvEOF(s)
    \/ \E s \in Sockets : RecvError(s)
    \/ OnConnect
    \/ OnDisconnect

Spec == Init /\ [][Next]_vars

-----------------------------------------------------------------------------
(* SpecSessions: sessions at frame level.  The bus is connected, recv()    *)
(* returns all the bytes that have arrived, and a terminal writes frames   *)
(* with the header Message.decode reads: 12 bytes, of which 6 are the id   *)
(* (the 6 bytes that Message.encode keeps of a 12-digit id).               *)

\* sessions the listener accepts
NumSessions == 2

SessionSockets == 1..NumSessions

\* a frame as Message.decode reads it: msg_id, body attributes, 6 bytes of
\* id, serial number, body, checksum, escaped between two 0x7e
TerminalFrame(msg_id, phone, msg_serial_no, body) ==
    LET msg_data == PackH(msg_id) \o PackH(Len(body)) \o phone
                    \o PackH(msg_serial_no) \o body
    IN  <<126>> \o apply_escape_rules(msg_data \o <<calculate_checksum(msg_data)>>)
        \o <<126>>

\* the body of a location report: alarm, status, latitude, longitude (116
\* deg), altitude, speed, direction, BCD time; cut to 20 bytes if short
LocationBody(lat_value, speed, short) ==
    LET body == PackI(0) \o PackI(0) \o PackI(lat_value) \o PackI(116000000)
                \o PackH(0) \o PackH(speed) \o PackH(0) \o <<35, 17, 20, 34, 19, 32>>
    IN  IF short THEN Slice(body, 0, 20) ELSE body

\* a registration body: province, city, manufacturer (5), model (20),
\* terminal id (7), plate colour
RegistrationBody == [i \in 1..37 |-> IF i <= 4 THEN 0 ELSE 48]

\* an authentication body: length byte and code "AB"
AuthBody == <<2, 65, 66>>

RegistrationFrameA == TerminalFrame(TERMINAL_REGISTRATION, Pack6s(DeviceA), 1, RegistrationBody)
RegistrationFrameB == TerminalFrame(TERMINAL_REGISTRATION, Pack6s(DeviceB), 2, RegistrationBody)
AuthFrame == TerminalFrame(TERMINAL_AUTH, Pack6s(DeviceA), 3, AuthBody)
LogoutFrame == TerminalFrame(TERMINAL_LOGOUT, Pack6s(DeviceA), 4, <<>>)
\* frames whose body does not parse
ShortRegistrationFrame == TerminalFrame(TERMINAL_REGISTRATION, Pack6s(DeviceA), 5, SubSeq(RegistrationBody, 1, 10))
EmptyAuthFrame == TerminalFrame(TERMINAL_AUTH, Pack6s(DeviceA), 6, <<>>)
ShortLocationFrame == TerminalFrame(LOCATION_REPORT, Pack6s(DeviceA), 7, LocationBody(39000000, 10, TRUE))
ShortBatchFrame == TerminalFrame(BATCH_LOCATION_UPLOAD, Pack6s(DeviceA), 8, <<0, 1>>)
\* a frame Message.decode raises on: one byte before the checksum
TinyFrame == <<126, 1, 2, 126>>

MalformedFrames == {ShortRegistrationFrame, EmptyAuthFrame, ShortLocationFrame, ShortBatchFrame, TinyFrame}

WellFormedFrames == {RegistrationFrameA, RegistrationFrameB, AuthFrame, LogoutFrame}

\* the frames the terminal of a session writes; the second session is a
\* terminal that registers under the id of the first
SessionFrames(s) ==
    IF s = 1 THEN WellFormedFrames \cup MalformedFrames ELSE {RegistrationFrameA}

\* the gateway after start(), no session yet
GatewayRunning ==
    /\ InitCodecIdle
    /\ running = TRUE
    /\ clients = EmptyDict
    /\ hbuf = EmptyDict
    /\ inflight = [s \in SessionSockets |-> <<>>]
    /\ sent = [s \in SessionSockets |-> <<>>]
    /\ handled = [s \in SessionSockets |-> <<>>]
    /\ recvs = [s \in SessionSockets |-> 0]
    /\ peer_sent = [s \in SessionSockets |-> <<>>]
    /\ broken = {}
    /\ closes = [s \in SessionSockets |-> 0]
    /\ submits = [s \in SessionSockets |-> 0]
    /\ device_state = EmptyDict
    /\ status_cache = EmptyDict
    /\ heartbeat_cache = EmptyDict
    /\ auth_cache = EmptyDict
    /\ registration_cache = EmptyDict
    /\ mqtt_connected = TRUE
    /\ now = StartTime
    /\ ticks = 0
    /\ call = NoCall
    /\ last_pub_loc = EmptyDict
    /\ last_offline = EmptyDict
    /\ last_pub_hb = EmptyDict
    /\ threads = [t \in Threads |-> IdleThread]
    /\ listener = Listening

InitSessions == GatewayRunning /\ sim = NoSim

\* the peer stops reading: from now on sendall() on the socket raises
BreakSocket(s) ==
    /\ s \in DOMAIN clients
    /\ s \notin broken
    /\ broken' = broken \cup {s}
    /\ UNCHANGED <<threads, running, clients, hbuf, inflight, sent, handled, recvs,
                   peer_sent, closes, submits, codecVars, listener, sim, cacheVars, gateVars>>

NextSessions ==
    \/ \E s \in SessionSockets : Accept(s)
    \/ \E s \in SessionSockets : \E f \in SessionFrames(s) : PeerSend(s, f)
    \/ \E s \in SessionSockets : Recv(s, RecvSize)
    \/ \E s \in SessionSockets : RecvEOF(s)
    \/ \E s \in SessionSockets : RecvError(s)
    \/ \E s \in SessionSockets : BreakSocket(s)

SpecSessions == InitSessions /\ [][NextSessions]_vars

-----------------------------------------------------------------------------
(* SpecResync: a peer that writes bytes that are not a frame and then      *)
(* well-formed frames, read by _handle_client in chunks                    *)

\* writes of the peer on one connection: the invalid bytes and the frames
MaxWrites == 3

\* bytes without a delimiter, an empty pair of delimiters, one delimiter
InvalidInputs == {<<1, 2, 3>>, <<126, 126>>, <<126>>}

\* the peer writes bytes that are not a frame
PeerNoise(s, g) ==
    /\ s \in DOMAIN clients
    /\ peer_sent[s] = <<>>
    /\ inflight' = [inflight EXCEPT ![s] = @ \o g]
    /\ peer_sent' = [peer_sent EXCEPT ![s] = Append(@, g)]
    /\ UNCHANGED <<threads, running, clients, hbuf, sent, handled, recvs,
                   broken, closes, submits, codecVars, listener, sim, cacheVars, gateVars>>

\* the peer writes a frame after the invalid bytes
PeerFrame(s, f) ==
    /\ s \in DOMAIN clients
    /\ peer_sent[s] # <<>>
    /\ Len(peer_sent[s]) < MaxWrites
    /\ inflight' = [inflight EXCEPT ![s] = @ \o f]
    /\ peer_sent' = [peer_sent EXCEPT ![s] = Append(@, f)]
    /\ UNCHANGED <<threads, running, clients, hbuf, sent, handled, recvs,
                   broken, closes, submits, codecVars, listener, sim, cacheVars, gateVars>>

NextResync ==
    \/ Accept(1)
    \/ \E g \in InvalidInputs : PeerNoise(1, g)
    \/ \E f \in {HeartbeatFrame, UnknownFrame} : PeerFrame(1, f)
    \/ \E k \in ChunkSizes : RecvData(1, k)

SpecResync == InitSessions /\ [][NextResync]_vars

-----------------------------------------------------------------------------
(* SpecGate: the handlers' calls into the publish gate, with a clock       *)

\* the device id the server derives from the frames of a terminal
GateDevices ==
    {Decode(Encode(Message(TERMINAL_HEARTBEAT, d, <<>>, 1, FALSE, FALSE, NoInfo))).msg.phone_no :
        d \in {DeviceA}}

\* latitude fields of the reports: 39 deg 0' 0" and 39 deg 0' 2"
LatValues == {39000000, 39000200}

\* speed field of the reports: ActivityLevel walking
SpeedValues == {10}

InitGate ==
    /\ InitCodecIdle
    /\ running = TRUE
    /\ clients = EmptyDict
    /\ hbuf = EmptyDict
    /\ inflight = [s \in Sockets |-> <<>>]
    /\ sent = [s \in Sockets |-> <<>>]
    /\ handled = [s \in Sockets |-> <<>>]
    /\ recvs = [s \in Sockets |-> 0]
    /\ peer_sent = [s \in Sockets |-> <<>>]
    /\ broken = {}
    /\ closes = [s \in Sockets |-> 0]
    /\ submits = [s \in Sockets |-> 0]
    /\ device_state = EmptyDict
    /\ status_cache = EmptyDict
    /\ heartbeat_cache = EmptyDict
    /\ auth_cache = EmptyDict
    /\ registration_cache = EmptyDict
    /\ mqtt_connected = FALSE
    /\ now = StartTime
    /\ ticks = 0
    /\ call = NoCall
    /\ last_pub_loc = EmptyDict
    /\ last_offline = EmptyDict
    /\ last_pub_hb = EmptyDict
    /\ threads = [t \in Threads |-> IdleThread]
    /\ listener = Listening
    /\ sim = NoSim

\* the clock advances by d seconds
Tick(d) ==
    /\ ticks < MaxTicks
    /\ now' = now + d
    /\ ticks' = ticks + 1
    /\ UNCHANGED <<threads, codecVars, listener, sim, sessionVars, cacheVars, mqtt_connected, call,
                   last_pub_loc, last_offline, last_pub_hb>>

\* what status_cache holds for a device before a call
CachedStatus(device_id) ==
    IF device_id \in DOMAIN status_cache THEN status_cache[device_id].status
    ELSE "absent"

\* seconds since the cached status of a device was stored, -1 if none
SinceCached(device_id) ==
    IF device_id \in DOMAIN status_cache THEN now - status_cache[device_id].timestamp
    ELSE -1

\* the record of a call that submitted status for device_id
StatusCall(op, device_id, status, events) ==
    [NoCall EXCEPT !.op = op, !.device_id = device_id, !.status = status,
                   !.cached = CachedStatus(device_id),
                   !.since = SinceCached(device_id),
                   !.time = now, !.events = events, !.flip = 1 - call.flip]

\* the state after a gate call that returned S1
GateReturn(S1) ==
    /\ SetSrv(S1)
    /\ last_offline' = ObserveOffline(last_offline, S1.events, now)
    /\ last_pub_loc' = ObserveLocation(last_pub_loc, S1.events, now)
    /\ last_pub_hb' = ObserveHeartbeat(last_pub_hb, S1.events, now)
    /\ UNCHANGED <<threads, codecVars, listener, sim, sessionVars, mqtt_connected, now, ticks>>

\* _process_message on a heartbeat: _publish_heartbeat(device_id)
Heartbeat(device_id) ==
    \E S1 \in {publish_heartbeat(Srv, device_id, now)} :
        /\ call' = StatusCall("heartbeat", device_id, "online", S1.events)
        /\ GateReturn(S1)

\* _process_message on a logout: _publish_logout(device_id)
Logout(device_id) ==
    \E S1 \in {publish_logout(Srv, device_id, now)} :
        /\ call' = StatusCall("logout", device_id, "offline", S1.events)
        /\ GateReturn(S1)

\* _close_client of a session whose device is known:
\* _publish_status(device_id, "offline")
CloseKnown(device_id) ==
    \E S1 \in {publish_status(Srv, device_id, "offline", now)} :
        /\ call' = StatusCall("close", device_id, "offline", S1.events)
        /\ GateReturn(S1)

\* _process_message on a location report: _publish_location(device_id, message)
LocationReport(device_id, lat_value, speed) ==
    LET message == Message(LOCATION_REPORT, device_id,
                           LocationBody(lat_value, speed, FALSE), 1, FALSE, FALSE, NoInfo)
    IN  \E S1 \in {publish_location(Srv, device_id, message, now)} :
            /\ call' = [StatusCall("location", device_id,
                                   IF S1.events = <<>> THEN "" ELSE "online",
                                   S1.events)
                           EXCEPT !.latitude = dms_to_decimal(lat_value),
                                  !.longitude = dms_to_decimal(116000000),
                                  !.speed = speed,
                                  !.wellformed = TRUE,
                                  !.first = device_id \notin DOMAIN device_state]
            /\ GateReturn(S1)

\* _process_message on a location report whose body is too short
ShortLocationReport(device_id, lat_value, speed) ==
    LET message == Message(LOCATION_REPORT, device_id,
                           LocationBody(lat_value, speed, TRUE), 1, FALSE, FALSE, NoInfo)
    IN  \E S1 \in {publish_location(Srv, device_id, message, now)} :
            /\ call' = [NoCall EXCEPT !.op = "location", !.device_id = device_id,
                                      !.time = now, !.events = S1.events,
                                      !.flip = 1 - call.flip]
            /\ GateReturn(S1)

NextGate ==
    \/ \E d \in TickSteps : Tick(d)
    \/ \E device_id \in GateDevices : Heartbeat(device_id)
    \/ \E device_id \in GateDevices : Logout(device_id)
    \/ \E device_id \in GateDevices : CloseKnown(device_id)
    \/ \E device_id \in GateDevices, lat_value \in LatValues, speed \in SpeedValues : LocationReport(device_id, lat_value, speed)
    \/ \E device_id \in GateDevices : ShortLocationReport(device_id, 39000000, 10)
    \/ OnConnect
    \/ OnDisconnect

SpecGate == InitGate /\ [][NextGate]_vars

-----------------------------------------------------------------------------
(* SpecBeat: a terminal that sends heartbeats at a fixed period or at      *)
(* will, with a clock                                                      *)

\* clock advances between the heartbeats of one behaviour
MaxWaits == 4

\* seconds between two heartbeats
BeatPeriods == {30, 60}

\* the clock advances by d seconds between two heartbeats
Wait(d) ==
    /\ ticks < MaxWaits
    /\ now' = now + d
    /\ ticks' = ticks + 1
    /\ UNCHANGED <<threads, codecVars, listener, sim, sessionVars, cacheVars, mqtt_connected, call,
                   last_pub_loc, last_offline, last_pub_hb>>

NextBeat ==
    \/ \E d \in BeatPeriods : Wait(d)
    \/ \E device_id \in GateDevices : Heartbeat(device_id)
    \/ OnConnect
    \/ OnDisconnect

SpecBeat == InitGate /\ [][NextBeat]_vars

-----------------------------------------------------------------------------
(* SpecTeardown: the teardown of one session by its _handle_client thread  *)
(* (thread 1) and by the thread that calls stop() (thread 2).              *)
(* _close_client takes no lock, so its statements interleave.              *)

\* _handle_client, lines 232-237 and 251-257: recv() on socket s returns b''
\* (err = FALSE) and the thread calls _close_client, or recv() raises
\* (err = TRUE) and the thread calls _close_client if the server is running
\* and the session is in the table; otherwise the thread ends
HandlerEnd(s, err) ==
    /\ s \in DOMAIN hbuf
    /\ threads[1].pc = "idle"
    /\ err \/ inflight[s] = <<>>
    /\ threads' = [threads EXCEPT ![1].pc =
                      IF err /\ ~(running /\ s \in DOMAIN clients) THEN "done"
                      ELSE "read"]
    /\ UNCHANGED <<codecVars, listener, sim, sessionVars, cacheVars, gateVars>>

\* JT808Server.stop, lines 174-181: running is set to False and _close_client
\* is called for the sessions in the table
Stop(s) ==
    /\ running
    /\ threads[2].pc = "idle"
    /\ running' = FALSE
    /\ threads' = [threads EXCEPT ![2].pc =
                      IF s \in DOMAIN clients THEN "read" ELSE "done"]
    /\ UNCHANGED <<clients, hbuf, inflight, sent, handled, recvs, peer_sent,
                   broken, closes, submits, codecVars, listener, sim, cacheVars, gateVars>>

\* JT808Server._close_client, one statement per step of thread t:
\* "read" line 524 (KeyError when the session is gone: caught, line 534),
\* "submit" line 528, "close" line 532, "del" line 533 (KeyError caught)
CloseStep(t, s) ==
    LET pc == threads[t].pc
    IN  /\ pc \in {"read", "submit", "close", "del"}
        /\ threads' = [threads EXCEPT ![t] =
               IF pc = "read"
               THEN IF s \notin DOMAIN clients THEN [@ EXCEPT !.pc = "done"]
                    ELSE [@ EXCEPT !.device_id = clients[s].device_id,
                                   !.pc = IF clients[s].device_id # NoDevice
                                          THEN "submit" ELSE "close"]
               ELSE [@ EXCEPT !.pc = IF pc = "submit" THEN "close"
                                     ELSE IF pc = "close" THEN "del" ELSE "done"]]
        /\ \E S1 \in {IF pc = "submit"
                       THEN publish_status(Srv, threads[t].device_id, "offline", now)
                       ELSE Srv} :
               /\ SetSrv(S1)
               /\ last_offline' = ObserveOffline(last_offline, S1.events, now)
        /\ submits' = [submits EXCEPT ![s] = IF pc = "submit" THEN @ + 1 ELSE @]
        /\ closes' = [closes EXCEPT ![s] = IF pc = "close" THEN @ + 1 ELSE @]
        /\ clients' = IF pc = "del" /\ s \in DOMAIN clients THEN Del(clients, s)
                      ELSE clients
        /\ UNCHANGED <<running, hbuf, inflight, sent, handled, recvs, peer_sent,
                       broken, codecVars, listener, sim, mqtt_connected, now, ticks, call,
                       last_pub_loc, last_pub_hb>>

NextTeardown ==
    \/ Accept(1)
    \/ \E f \in {RegistrationFrameA, AuthFrame} : PeerSend(1, f)
    \/ threads[1].pc = "idle" /\ Recv(1, RecvSize)
    \/ \E err \in BOOLEAN : HandlerEnd(1, err)
    \/ Stop(1)
    \/ \E t \in Threads : CloseStep(t, 1)

SpecTeardown == InitSessions /\ [][NextTeardown]_vars

-----------------------------------------------------------------------------
(* SpecListener: the accept thread, the sessions' threads and the thread   *)
(* that calls stop(), statement by statement where they share state        *)

\* accept() calls that raise while the socket listens
MaxAcceptFailures == 1

\* _accept_connections, line 197: accept() returns the connection s
AcceptReturn(s) ==
    /\ listener.pc = "accept"
    /\ listener.socket = "listening"
    /\ s \notin DOMAIN hbuf
    /\ listener' = [listener EXCEPT !.pc = "insert", !.conn = s,
                                    !.after_failure =
                                        IF listener.failures > 0 THEN @ \cup {s} ELSE @]
    /\ UNCHANGED <<threads, codecVars, sim, sessionVars, cacheVars, gateVars>>

\* _accept_connections, lines 201-210: the session enters the table and its
\* thread starts
AcceptInsert ==
    /\ listener.pc = "insert"
    /\ clients' = Put(clients, listener.conn, [buffer |-> <<>>, device_id |-> NoDevice])
    /\ hbuf' = Put(hbuf, listener.conn, <<>>)
    /\ listener' = [listener EXCEPT !.pc = "loop", !.conn = 0]
    /\ UNCHANGED <<threads, running, inflight, sent, handled, recvs, peer_sent,
                   broken, closes, submits, codecVars, sim, cacheVars, gateVars>>

\* the variant of lines 211-214 in which the accept thread ends when accept()
\* raises
AcceptFail_ending ==
    /\ listener.pc = "accept"
    /\ listener.socket = "closed" \/ listener.failures < MaxAcceptFailures
    /\ listener' = [listener EXCEPT !.pc = "done",
                                    !.failures = IF listener.socket = "closed" THEN @
                                                 ELSE @ + 1]
    /\ UNCHANGED <<threads, codecVars, sim, sessionVars, cacheVars, gateVars>>

\* _accept_connections, lines 211-214: accept() raises, because the listener
\* was closed or for a reason of its own; the thread logs and sleeps if the
\* server is running
AcceptFail ==
    /\ listener.pc = "accept"
    /\ listener.socket = "closed" \/ listener.failures < MaxAcceptFailures
    /\ listener' = [listener EXCEPT !.pc = "loop",
                                    !.failures = IF listener.socket = "closed" THEN @
                                                 ELSE @ + 1]
    /\ UNCHANGED <<threads, codecVars, sim, sessionVars, cacheVars, gateVars>>

\* _accept_connections, line 195: while self.running
AcceptLoop ==
    /\ listener.pc = "loop"
    /\ listener' = [listener EXCEPT !.pc = IF running THEN "accept" ELSE "done"]
    /\ UNCHANGED <<threads, codecVars, sim, sessionVars, cacheVars, gateVars>>

\* stop, lines 174-180: running is cleared and the keys of self.clients are
\* listed
StopBegin ==
    /\ running
    /\ listener.stop = "idle"
    /\ running' = FALSE
    /\ listener' = [listener EXCEPT !.stop = "closing", !.pending = DOMAIN clients]
    /\ UNCHANGED <<threads, clients, hbuf, inflight, sent, handled, recvs, peer_sent,
                   broken, closes, submits, codecVars, sim, cacheVars, gateVars>>

\* stop, line 181: _close_client for one session of the list
StopClose(s) ==
    /\ listener.stop = "closing"
    /\ s \in listener.pending
    /\ s \in DOMAIN clients
    /\ CloseClient(s)
    /\ listener' = [listener EXCEPT !.pending = @ \ {s}]

\* stop, lines 183-187: the server socket is closed and stop() returns
StopReturn ==
    /\ listener.stop = "closing"
    /\ listener.pending \cap DOMAIN clients = {}
    /\ listener' = [listener EXCEPT !.stop = "returned", !.socket = "closed",
                                    !.pending = {}]
    /\ UNCHANGED <<threads, codecVars, sim, sessionVars, cacheVars, gateVars>>

NextListener ==
    \/ \E s \in SessionSockets : AcceptReturn(s)
    \/ AcceptInsert
    \/ AcceptFail
    \/ AcceptLoop
    \/ \E s \in SessionSockets : \E f \in {AuthFrame, TinyFrame} : PeerSend(s, f)
    \/ \E s \in SessionSockets : RecvData(s, RecvSize)
    \/ \E s \in SessionSockets : RecvEOF(s)
    \/ \E s \in SessionSockets : RecvError(s)
    \/ StopBegin
    \/ \E s \in SessionSockets : StopClose(s)
    \/ StopReturn

SpecListener == InitSessions /\ [][NextListener]_vars

-----------------------------------------------------------------------------
(* SpecFlood: a peer that writes an opening 0x7e and then bytes that hold  *)
(* no 0x7e, read in chunks of recv(1024).  The initial states are the      *)
(* session before the first chunk and the states that follow it, in which  *)
(* the session has read n chunks: each of them is the state that n rounds  *)
(* of FloodSend and RecvData lead to from the first.                       *)

\* chunks of RecvSize bytes the peer writes
MaxFloodChunks == 66

\* the first n bytes the peer writes
FloodBytes(n) == [i \in 1..n |-> IF i = 1 THEN 126 ELSE 0]

\* the peer writes RecvSize bytes: 0x7e first if they are the first bytes of
\* the connection, zeros otherwise; at most two chunks wait to be read
FloodSend(s) ==
    /\ s \in DOMAIN clients
    /\ Len(inflight[s]) <= RecvSize
    /\ Len(hbuf[s]) + Len(inflight[s]) < MaxFloodChunks * RecvSize
    /\ inflight' = [inflight EXCEPT ![s] =
                        From(FloodBytes(Len(hbuf[s]) + Len(@) + RecvSize), Len(hbuf[s]))]
    /\ UNCHANGED <<threads, running, clients, hbuf, sent, handled, recvs, peer_sent,
                   broken, closes, submits, codecVars, listener, sim, cacheVars, gateVars>>

\* session 1 accepted, with n chunks read, n * RecvSize no more than 64 KiB
InitFlood ==
    /\ InitCodecIdle
    /\ running = TRUE
    /\ \E n \in 0..(MaxFloodChunks - 2) :
           /\ hbuf = Put(EmptyDict, 1, FloodBytes(n * RecvSize))
           /\ clients = Put(EmptyDict, 1, [buffer |-> FloodBytes(n * RecvSize),
                                           device_id |-> NoDevice])
           /\ recvs = [s \in SessionSockets |-> IF s = 1 THEN n ELSE 0]
    /\ inflight = [s \in SessionSockets |-> <<>>]
    /\ sent = [s \in SessionSockets |-> <<>>]
    /\ handled = [s \in SessionSockets |-> <<>>]
    /\ peer_sent = [s \in SessionSockets |-> <<>>]
    /\ broken = {}
    /\ closes = [s \in SessionSockets |-> 0]
    /\ submits = [s \in SessionSockets |-> 0]
    /\ device_state = EmptyDict
    /\ status_cache = EmptyDict
    /\ heartbeat_cache = EmptyDict
    /\ auth_cache = EmptyDict
    /\ registration_cache = EmptyDict
    /\ mqtt_connected = TRUE
    /\ now = StartTime
    /\ ticks = 0
    /\ call = NoCall
    /\ last_pub_loc = EmptyDict
    /\ last_offline = EmptyDict
    /\ last_pub_hb = EmptyDict
    /\ threads = [t \in Threads |-> IdleThread]
    /\ listener = Listening
    /\ sim = NoSim

NextFlood ==
    \/ FloodSend(1)
    \/ RecvData(1, RecvSize)

SpecFlood == InitFlood /\ [][NextFlood]_vars

-----------------------------------------------------------------------------
(* SpecAuth: authentication frames passed to _publish_authentication       *)

\* authentication bodies and the code each carries: "AB", "AC", "FF", a
\* byte 0xff (not UTF-8; the handler writes it as hex, "FF"), and a length
\* byte that exceeds the body (the handler takes the code to be "")
AuthInputs ==
    {[body |-> AuthBody, code |-> <<65, 66>>],
     [body |-> <<2, 65, 67>>, code |-> <<65, 67>>],
     [body |-> <<2, 70, 70>>, code |-> <<70, 70>>],
     [body |-> <<1, 255>>, code |-> <<70, 70>>],
     [body |-> <<5, 65>>, code |-> <<>>]}

\* _process_message on an authentication frame:
\* _publish_authentication(device_id, message)
Authentication(device_id, inp) ==
    LET message == Message(TERMINAL_AUTH, device_id, inp.body, 1, FALSE, FALSE, NoInfo)
    IN  \E S1 \in {publish_authentication(Srv, device_id, message, now)} :
            /\ call' = [StatusCall("authentication", device_id, "online", S1.events)
                           EXCEPT !.auth_code = inp.code]
            /\ GateReturn(S1)

NextAuth ==
    \/ \E d \in TickSteps : Tick(d)
    \/ \E device_id \in GateDevices, inp \in AuthInputs : Authentication(device_id, inp)
    \/ OnConnect
    \/ OnDisconnect

SpecAuth == InitGate /\ [][NextAuth]_vars

-----------------------------------------------------------------------------
(* SpecStatus: _publish_status run by the handler threads of the sessions  *)
(* of one device.  The threads share self.status_cache and take no lock    *)
(* (_accept_connections starts one thread per connection), so a thread may *)
(* run between any two statements of another.                              *)

\* lines 1126-1154: the thread reads the clock and the cache and decides
StatusEnter(t, device_id, status) ==
    /\ threads[t].pc = "idle"
    /\ LET in_cache == device_id \in DOMAIN status_cache
           cached == IF in_cache THEN status_cache[device_id]
                     ELSE [status |-> "", timestamp |-> 0]
       IN  threads' = [threads EXCEPT ![t] =
               [pc |-> "update", device_id |-> device_id, status |-> status,
                current_time |-> now,
                should_publish |-> StatusShouldPublish(in_cache, cached.status,
                                                       now - cached.timestamp, status)]]
    /\ UNCHANGED <<codecVars, listener, sim, sessionVars, cacheVars, gateVars>>

\* lines 1156-1162: the thread stores the status and returns unless it
\* decided to publish
StatusUpdate(t) ==
    /\ threads[t].pc = "update"
    /\ status_cache' = Put(status_cache, threads[t].device_id,
                           [status |-> threads[t].status,
                            timestamp |-> threads[t].current_time])
    /\ threads' = [threads EXCEPT ![t] =
           IF threads[t].should_publish THEN [@ EXCEPT !.pc = "publish"]
           ELSE IdleThread]
    /\ UNCHANGED <<codecVars, listener, sim, sessionVars, device_state, heartbeat_cache, auth_cache,
                   registration_cache, gateVars>>

\* lines 1163-1181: the thread builds the payload and calls _publish_mqtt
StatusPublish(t) ==
    /\ threads[t].pc = "publish"
    /\ \E S1 \in {publish_mqtt(Srv, [Event("status", threads[t].device_id)
                                       EXCEPT !.status = threads[t].status])} :
           /\ call' = [NoCall EXCEPT !.op = "status",
                                     !.device_id = threads[t].device_id,
                                     !.status = threads[t].status,
                                     !.time = now,
                                     !.events = S1.events,
                                     !.flip = 1 - call.flip]
           /\ last_offline' = ObserveOffline(last_offline, S1.events, now)
    /\ threads' = [threads EXCEPT ![t] = IdleThread]
    /\ UNCHANGED <<codecVars, listener, sim, sessionVars, cacheVars, mqtt_connected, now, ticks,
                   last_pub_loc, last_pub_hb>>

NextStatus ==
    \/ \E d \in TickSteps : Tick(d)
    \/ \E t \in Threads, device_id \in GateDevices, status \in {"online", "offline"} : StatusEnter(t, device_id, status)
    \/ \E t \in Threads : StatusUpdate(t)
    \/ \E t \in Threads : StatusPublish(t)
    \/ OnConnect
    \/ OnDisconnect

SpecStatus == InitGate /\ [][NextStatus]_vars

-----------------------------------------------------------------------------
(* JT808Protocol (src/jt808/protocol.py) and the connection manager of     *)
(* GPSTrackingSimulator (src/simulator.py)                                 *)

\* the highest serial number a behaviour of the model uses
MaxSerial == 6
\* connections a behaviour of the model opens
MaxConnections == 3
\* consecutive connects that fail
MaxConnectFailures == 6

\* GPSTrackingSimulator.__init__: the defaults of the reconnect delays
reconnect_interval == 5
max_reconnect_interval == 60

\* Message.create_registration with the defaults of the simulator: province,
\* city, "SIMUL", "SIM808" padded to 20 bytes, "SIM0001", plate colour 0,
\* and the plate "DEMO" behind its length
SimRegistrationBody ==
    PackH(0) \o PackH(0) \o <<83, 73, 77, 85, 76>> \o <<83, 73, 77, 56, 48, 56>>
    \o [i \in 1..14 |-> 0] \o <<83, 73, 77, 48, 48, 48, 49>> \o <<0>>
    \o <<4>> \o <<68, 69, 77, 79>>

\* JT808Protocol._get_next_serial_no
get_next_serial_no(p) == (p.msg_serial_no + 1) % 65535

\* JT808Protocol.send_message: nothing is written unless connected
send_message(p, message) ==
    IF ~p.connected THEN p ELSE [p EXCEPT !.outbox = Append(@, message)]

\* JT808Protocol.register with Message.create_registration
register(p) ==
    LET serial == get_next_serial_no(p)
        message == Message(TERMINAL_REGISTRATION, p.device_id, SimRegistrationBody,
                           serial, FALSE, FALSE, NoInfo)
        p1 == send_message([p EXCEPT !.msg_serial_no = serial], message)
    IN  IF p.connected THEN [p1 EXCEPT !.reg_conn = p.conn] ELSE p1

\* Message.create_authentication
create_authentication(phone_no, auth_code, msg_serial_no) ==
    Message(TERMINAL_AUTH, phone_no, <<Len(auth_code)>> \o auth_code, msg_serial_no,
            FALSE, FALSE, NoInfo)

\* JT808Protocol.authenticate
authenticate(p, auth_code) ==
    LET serial == get_next_serial_no(p)
        p1 == send_message([p EXCEPT !.msg_serial_no = serial],
                           create_authentication(p.device_id, auth_code, serial))
    IN  IF p.connected THEN [p1 EXCEPT !.auth_conn = p.conn] ELSE p1

\* JT808Protocol.send_heartbeat
send_heartbeat(p) ==
    LET serial == get_next_serial_no(p)
        p1 == send_message([p EXCEPT !.msg_serial_no = serial],
                           Message(TERMINAL_HEARTBEAT, p.device_id, <<>>, serial,
                                   FALSE, FALSE, NoInfo))
    IN  IF p.connected THEN [p1 EXCEPT !.data_conn = p.conn] ELSE p1

\* JT808Protocol._handle_platform_response: the first five bytes of the body
\* are read as serial number, message id and result
handle_platform_response(p, message) ==
    IF Len(message.body) < 5 THEN p
    ELSE LET ack_id == UnpackH(message.body, 3)
             result == message.body[5]
         IN  IF ack_id = TERMINAL_AUTH /\ result = 0
             THEN [p EXCEPT !.authenticated = TRUE, !.acked = TRUE,
                            !.authd_conn = p.conn]
             ELSE p

\* JT808Protocol._handle_registration_response: serial number, result,
\* length byte, auth code; the code is stored and authenticate() is called.
\* A code that does not fit the body or does not decode is replaced by
\* "123456" (the model decodes ASCII only).
handle_registration_response(p, message) ==
    LET body == message.body
        p0 == [p EXCEPT !.reg_handled = TRUE]
    IN  IF Len(body) < 3 THEN p
        ELSE IF body[3] # 0 THEN p0
        ELSE LET auth_len == IF Len(body) > 3 THEN body[4] ELSE 0
                 auth_bytes == Slice(body, 4, 4 + auth_len)
                 auth_code == IF Len(body) > 3 /\ 4 + auth_len <= Len(body)
                                 /\ IsAscii(auth_bytes)
                              THEN auth_bytes ELSE AuthCode123456
             IN  authenticate([p0 EXCEPT !.auth_code = auth_code,
                                         !.code_conn = p.conn],
                              auth_code)

\* the variables of the gateway
serverVars == <<codecVars, listener, sessionVars, cacheVars, gateVars, threads>>

\* JT808Protocol._receive_thread: the next frame is decoded and handled
ReceiveThread ==
    /\ sim.connected
    /\ sim.inbox # <<>>
    /\ sim.msg_serial_no < MaxSerial
    /\ LET d == Decode(Head(sim.inbox))
           p == [sim EXCEPT !.inbox = Tail(@)]
       IN  sim' = IF ~d.ok THEN p
                  ELSE IF d.msg.msg_id = PLATFORM_GENERAL_RESPONSE
                  THEN handle_platform_response(p, d.msg)
                  ELSE IF d.msg.msg_id = TERMINAL_REGISTRATION_RESPONSE
                  THEN handle_registration_response(p, d.msg)
                  ELSE p
    /\ UNCHANGED serverVars

\* JT808Protocol._receive_thread, lines 111-115: recv() returns no data
ConnectionLost ==
    /\ sim.connected
    /\ sim' = [sim EXCEPT !.connected = FALSE, !.inbox = <<>>, !.outbox = <<>>]
    /\ UNCHANGED serverVars

\* the exponential backoff of _connection_manager, line 150
NextBackoff_uncapped(backoff_time) == backoff_time * 2

NextBackoff(backoff_time) == Min(backoff_time * 2, max_reconnect_interval)

\* _connection_manager, lines 128-134: connect() succeeds
ConnectOk ==
    /\ sim.pc = "top"
    /\ ~sim.connected
    /\ sim.conn < MaxConnections
    /\ sim' = [sim EXCEPT !.connected = TRUE, !.conn = @ + 1,
                          !.backoff_time = reconnect_interval, !.fails = 0,
                          !.pc = "register"]
    /\ UNCHANGED serverVars

\* _connection_manager, lines 146-151: connect() fails; the thread sleeps
\* backoff_time seconds and doubles it
ConnectFail ==
    /\ sim.pc = "top"
    /\ ~sim.connected
    /\ sim.fails < MaxConnectFailures
    /\ sim' = [sim EXCEPT !.delay = sim.backoff_time,
                          !.backoff_time = NextBackoff(sim.backoff_time),
                          !.fails = @ + 1]
    /\ UNCHANGED serverVars

\* _connection_manager, line 128: the protocol is connected
StillConnected ==
    /\ sim.pc = "top"
    /\ sim.connected
    /\ sim' = [sim EXCEPT !.pc = "sleep"]
    /\ UNCHANGED serverVars

\* _register_and_authenticate, lines 170-175
Register ==
    /\ sim.pc = "register"
    /\ sim.msg_serial_no < MaxSerial
    /\ sim' = [register(sim) EXCEPT !.pc = IF sim.connected THEN "wait_code"
                                           ELSE "sleep"]
    /\ UNCHANGED serverVars

\* _register_and_authenticate, lines 177-190: the wait for the auth code
\* ends because it is there, because 30 s have passed (timeout), or because
\* the connection is lost
WaitCode(timeout) ==
    /\ sim.pc = "wait_code"
    /\ sim.auth_code # NoCode \/ timeout \/ ~sim.connected
    /\ sim' = IF ~sim.connected THEN [sim EXCEPT !.pc = "sleep"]
              ELSE IF sim.auth_code = NoCode
              THEN [sim EXCEPT !.auth_code = AuthCode123456, !.code_conn = sim.conn,
                               !.pc = "auth"]
              ELSE [sim EXCEPT !.pc = "auth"]
    /\ UNCHANGED serverVars

\* _register_and_authenticate, lines 192-197
Authenticate ==
    /\ sim.pc = "auth"
    /\ sim.msg_serial_no < MaxSerial
    /\ sim' = IF sim.authenticated THEN [sim EXCEPT !.pc = "start"]
              ELSE [authenticate(sim, sim.auth_code) EXCEPT
                        !.pc = IF sim.connected THEN "wait_auth" ELSE "sleep"]
    /\ UNCHANGED serverVars

\* _register_and_authenticate, lines 199-214: the wait for authenticated
\* ends because it is set, because 10 s have passed (timeout), or because
\* the connection is lost; authenticated is then forced
WaitAuth(timeout) ==
    /\ sim.pc = "wait_auth"
    /\ sim.authenticated \/ timeout \/ ~sim.connected
    /\ sim' = IF ~sim.connected THEN [sim EXCEPT !.pc = "sleep"]
              ELSE IF ~sim.authenticated
              THEN [sim EXCEPT !.authenticated = TRUE, !.authd_conn = sim.conn,
                               !.pc = "start"]
              ELSE [sim EXCEPT !.pc = "start"]
    /\ UNCHANGED serverVars

\* _connection_manager, lines 137-144, with _start_data_threads
StartDataThreads ==
    /\ sim.pc = "start"
    /\ sim' = IF sim.threads_started THEN [sim EXCEPT !.pc = "sleep"]
              ELSE [sim EXCEPT !.pc = "sleep", !.threads_started = TRUE,
                               !.started = [conn |-> sim.conn,
                                            connected |-> sim.connected,
                                            reg_conn |-> sim.reg_conn,
                                            auth_conn |-> sim.auth_conn,
                                            authd_conn |-> sim.authd_conn,
                                            authenticated |-> sim.authenticated,
                                            auth_code |-> sim.auth_code]]
    /\ UNCHANGED serverVars

\* _connection_manager, lines 153-160: after the sleep of
\* connection_check_interval seconds
ConnectionCheck ==
    /\ sim.pc = "sleep"
    /\ sim' = IF ~sim.connected /\ sim.threads_started
              THEN [sim EXCEPT !.authenticated = FALSE, !.auth_code = NoCode,
                               !.pc = "top"]
              ELSE [sim EXCEPT !.pc = "top"]
    /\ UNCHANGED serverVars

\* _heartbeat_loop, lines 271-273
HeartbeatLoop ==
    /\ sim.threads_started
    /\ sim.authenticated
    /\ sim.msg_serial_no < MaxSerial
    /\ sim' = send_heartbeat(sim)
    /\ UNCHANGED serverVars

-----------------------------------------------------------------------------
(* SpecHandshake: the simulator registers and authenticates with the       *)
(* gateway over one connection                                             *)

\* a recv() of the gateway that returns 32 bytes
PartOfFrame == 32

\* the simulator of device "123456789012" after start()
SimStarted == [NoSim EXCEPT !.pc = "top", !.device_id = DeviceA]

InitHandshake == GatewayRunning /\ sim = SimStarted

\* the bytes of the oldest message the simulator wrote reach the gateway
Uplink ==
    /\ 1 \in DOMAIN clients
    /\ sim.outbox # <<>>
    /\ inflight' = [inflight EXCEPT ![1] = @ \o Encode(Head(sim.outbox))]
    /\ peer_sent' = [peer_sent EXCEPT ![1] = Append(@, Encode(Head(sim.outbox)))]
    /\ sim' = [sim EXCEPT !.outbox = Tail(@)]
    /\ UNCHANGED <<threads, running, clients, hbuf, sent, handled, recvs, broken,
                   closes, submits, codecVars, listener, cacheVars, gateVars>>

\* the next frame the gateway wrote reaches the simulator
Downlink ==
    /\ sim.connected
    /\ sim.rx < Len(sent[1])
    /\ sim' = [sim EXCEPT !.inbox = Append(@, sent[1][sim.rx + 1]), !.rx = @ + 1]
    /\ UNCHANGED serverVars

NextHandshake ==
    \/ Accept(1)
    \/ ConnectOk
    \/ Register
    \/ \E timeout \in BOOLEAN : WaitCode(timeout)
    \/ Authenticate
    \/ \E timeout \in BOOLEAN : WaitAuth(timeout)
    \/ ReceiveThread
    \/ Uplink
    \/ Downlink
    \/ \E k \in {PartOfFrame, RecvSize} : RecvData(1, k)

SpecHandshake == InitHandshake /\ [][NextHandshake]_vars

-----------------------------------------------------------------------------
(* SpecSimulator: the connection manager, the receive thread and the       *)
(* heartbeat thread of the simulator, with a platform that answers in the  *)
(* layout the handlers of JT808Protocol read                               *)

\* the auth code "AB" of the platform
PlatformCode == <<65, 66>>

\* what the platform answers to a message: a registration response with
\* result 0 and the code, a general response with result 0 to an
\* authentication, nothing to anything else
PlatformReply(m) ==
    IF m.msg_id = TERMINAL_REGISTRATION
    THEN TerminalFrame(TERMINAL_REGISTRATION_RESPONSE, Pack6s(m.phone_no), 0,
                       PackH(m.msg_serial_no) \o <<0, Len(PlatformCode)>>
                       \o PlatformCode)
    ELSE IF m.msg_id = TERMINAL_AUTH
    THEN TerminalFrame(PLATFORM_GENERAL_RESPONSE, Pack6s(m.phone_no), 0,
                       PackH(m.msg_serial_no) \o PackH(TERMINAL_AUTH) \o <<0>>)
    ELSE <<>>

\* the platform reads the oldest message the simulator wrote and answers it
\* or not
PlatformRead(answer) ==
    /\ sim.outbox # <<>>
    /\ LET reply == IF answer THEN PlatformReply(Head(sim.outbox)) ELSE <<>>
       IN  sim' = [sim EXCEPT !.outbox = Tail(@),
                              !.inbox = IF reply = <<>> THEN @ ELSE Append(@, reply)]
    /\ UNCHANGED serverVars

InitSimulator == InitCodecIdle /\ ServerAtRest /\ sim = SimStarted

NextSimulator ==
    \/ ConnectOk
    \/ ConnectFail
    \/ StillConnected
    \/ Register
    \/ \E timeout \in BOOLEAN : WaitCode(timeout)
    \/ Authenticate
    \/ \E timeout \in BOOLEAN : WaitAuth(timeout)
    \/ StartDataThreads
    \/ ConnectionCheck
    \/ HeartbeatLoop
    \/ ReceiveThread
    \/ ConnectionLost
    \/ \E answer \in BOOLEAN : PlatformRead(answer)

SpecSimulator == InitSimulator /\ [][NextSimulator]_vars

-----------------------------------------------------------------------------
(* SpecLocation: the location thread of the simulator                      *)

\* iterations of the loop of _location_loop in one behaviour
MaxIterations == 8

\* seconds that pass in one iteration of the loop, which sleeps
\* check_interval = 2.5 s
SleepSteps == {3, 30}

\* config['speed'], -1 if the key is absent
ConfigSpeeds == {-1, 10}

\* random.uniform(-10, 10) of _update_location, added to the base speed
SpeedNoise == {-7, 2}

\* the haversine distance, in centimetres, of one step of move_distance =
\* 0.00005 degrees along a meridian (6371000 m * 0.00005 * pi / 180)
StepCm == 556

\* _calculate_distance for two points of one meridian, in centimetres;
\* latitudes are counted in steps of move_distance
SimDistanceCm(lat1, lat2) == Abs(lat1 - lat2) * StepCm

\* _location_loop, lines 347-362: the interval of the activity of a speed
SimInterval(speed) == IF speed > 20 THEN 5 ELSE IF speed > 5 THEN 60 ELSE 300

\* _location_loop, lines 347-362 and _update_location, lines 606-617: the
\* distance threshold of the activity of a speed, in centimetres
SimThresholdCm(speed) == IF speed > 20 THEN 500 ELSE IF speed > 5 THEN 1000 ELSE 1500

\* _location_loop, lines 347-362: the activity of a speed
SimActivity(speed) ==
    IF speed > 20 THEN "fast_moving" ELSE IF speed > 5 THEN "walking" ELSE "resting"

\* GPSTrackingSimulator.__init__, lines 59-77, and _location_loop, lines
\* 289-331, for config['move'] = move and config['speed'] = config_speed:
\* the fields and locals when the loop is entered.  report is the last
\* report sent: the seconds and the distance since the report before it (or
\* since construction) and the speed.
LocStart(move, config_speed) ==
    [move |-> move,
     base_speed |-> IF config_speed = -1 THEN 60 ELSE config_speed,
     latitude |-> 0,
     speed |-> IF config_speed = -1 THEN 0 ELSE config_speed,
     should_send_location |-> TRUE,
     last_sent_position |-> [lat |-> 0, timestamp |-> StartTime],
     location_interval |-> 60,
     current_activity |-> "walking",
     next_forced_update |-> StartTime + 60,
     time |-> StartTime,
     iterations |-> 0,
     report |-> <<>>]

\* _update_location: one step north, a new speed, and the flag is set if the
\* position is far enough from the last one sent
update_location(l, noise) ==
    LET latitude == l.latitude + 1
        speed == Max(0, Min(120, l.base_speed + noise))
    IN  [l EXCEPT !.latitude = latitude,
                  !.speed = speed,
                  !.should_send_location =
                      IF SimDistanceCm(l.last_sent_position.lat, latitude)
                         >= SimThresholdCm(speed)
                      THEN TRUE ELSE @]

\* _location_loop, lines 333-476: one iteration of the loop while the
\* protocol is authenticated, and the sleep after it
LocationLoop(noise, slept) ==
    /\ sim.loc # <<>>
    /\ sim.authenticated
    /\ sim.loc.iterations < MaxIterations
    /\ LET l1 == IF sim.loc.move THEN update_location(sim.loc, noise) ELSE sim.loc
           l2 == IF SimActivity(l1.speed) # l1.current_activity
                 THEN [l1 EXCEPT !.current_activity = SimActivity(l1.speed),
                                 !.location_interval = SimInterval(l1.speed)]
                 ELSE l1
           time_threshold_met == l2.time >= l2.next_forced_update
           distance_threshold_met == l2.should_send_location
           l3 == IF time_threshold_met /\ distance_threshold_met
                 THEN [l2 EXCEPT
                          !.report = [elapsed |-> l2.time - l2.last_sent_position.timestamp,
                                      distance |-> SimDistanceCm(l2.last_sent_position.lat,
                                                                 l2.latitude),
                                      speed |-> l2.speed],
                          !.last_sent_position = [lat |-> l2.latitude,
                                                  timestamp |-> l2.time],
                          !.should_send_location = FALSE,
                          !.next_forced_update = l2.time + l2.location_interval]
                 ELSE l2
       IN  sim' = [sim EXCEPT !.loc = [l3 EXCEPT !.time = @ + slept,
                                                 !.iterations = @ + 1]]
    /\ UNCHANGED serverVars

\* the simulator after a handshake, when _start_data_threads has started
\* the location thread
InitLocation ==
    /\ InitCodecIdle
    /\ ServerAtRest
    /\ \E move \in BOOLEAN, config_speed \in ConfigSpeeds :
           sim = [SimStarted EXCEPT !.pc = "sleep", !.connected = TRUE, !.conn = 1,
                                    !.authenticated = TRUE,
                                    !.auth_code = AuthCode123456,
                                    !.msg_serial_no = 2, !.reg_conn = 1,
                                    !.auth_conn = 1, !.code_conn = 1, !.authd_conn = 1,
                                    !.threads_started = TRUE,
                                    !.loc = LocStart(move, config_speed)]

NextLocation == \E noise \in SpeedNoise, slept \in SleepSteps : LocationLoop(noise, slept)

SpecLocation == InitLocation /\ [][NextLocation]_vars

-----------------------------------------------------------------------------
(* SpecSerial: the threads of one simulator calling _get_next_serial_no,   *)
(* which reads self.msg_serial_no, stores the next value and reads it      *)
(* again to return it, with no lock held                                   *)

\* messages the threads send in one behaviour
MaxSends == 4

\* the data threads and the receive thread (1 heartbeat, 2 location,
\* 3 receive), each sending through the one JT808Protocol
SerialThreads == 1..3

\* a thread outside _get_next_serial_no
NoSerialCall == [pc |-> "idle", value |-> 0]

InitSerial ==
    /\ InitCodecIdle
    /\ ServerAtRest
    /\ \E n \in {0, 65533} :
           sim = [NoSim EXCEPT !.pc = "connected", !.device_id = DeviceA,
                               !.connected = TRUE, !.conn = 1,
                               !.authenticated = TRUE, !.threads_started = TRUE,
                               !.msg_serial_no = n,
                               !.serial_calls = [t \in SerialThreads |-> NoSerialCall]]

\* line 79, right-hand side: the thread reads self.msg_serial_no
SerialLoad(t) ==
    /\ sim.serial_calls[t].pc = "idle"
    /\ Len(sim.outbox) < MaxSends
    /\ sim' = [sim EXCEPT !.serial_calls[t] = [pc |-> "loaded", value |-> sim.msg_serial_no]]
    /\ UNCHANGED serverVars

\* line 79, assignment: the thread stores the successor of what it read
SerialStore(t) ==
    /\ sim.serial_calls[t].pc = "loaded"
    /\ sim' = [sim EXCEPT
                  !.msg_serial_no =
                      get_next_serial_no([sim EXCEPT !.msg_serial_no = sim.serial_calls[t].value]),
                  !.serial_calls[t].pc = "stored"]
    /\ UNCHANGED serverVars

\* line 80: the thread returns self.msg_serial_no as it is now, and the
\* caller sends its message with that serial number
SerialReturn(t) ==
    /\ sim.serial_calls[t].pc = "stored"
    /\ sim' = [send_message(sim, Message(TERMINAL_HEARTBEAT, sim.device_id, <<>>,
                                         sim.msg_serial_no, FALSE, FALSE, NoInfo))
                  EXCEPT !.serial_calls[t] = NoSerialCall]
    /\ UNCHANGED serverVars

NextSerial ==
    \/ \E t \in SerialThreads : SerialLoad(t)
    \/ \E t \in SerialThreads : SerialStore(t)
    \/ \E t \in SerialThreads : SerialReturn(t)

SpecSerial == InitSerial /\ [][NextSerial]_vars

-----------------------------------------------------------------------------
(* Properties                                                              *)

\* the call handed an event of this kind for the device to _publish_mqtt
HasEvent(events, kind, device_id) ==
    \E i \in 1..Len(events) :
        events[i].kind = kind /\ events[i].device_id = device_id

\* the call handed a status event of this status for the device to
\* _publish_mqtt
HasStatusEvent(events, device_id, status) ==
    \E i \in 1..Len(events) :
        /\ events[i].kind = "status"
        /\ events[i].device_id = device_id
        /\ events[i].status = status

\* the events of a call that _publish_mqtt passed to mqtt_client.publish
Sent(events) == SelectSeq(events, LAMBDA e : e.sent)

\* the trailing byte of a frame, after unescaping, differs from the XOR of
\* the bytes before it
ChecksumMismatch(data) ==
    LET u == remove_escape_rules(Slice(data, 1, Len(data) - 1))
    IN  Len(u) >= 1 /\ u[Len(u)] # calculate_checksum(Slice(u, 0, Len(u) - 1))

\* the result byte of a general response frame: the last byte of its body
ResultByte(data) ==
    LET u == remove_escape_rules(Slice(data, 1, Len(data) - 1))
    IN  u[Len(u) - 1]

\* the message id of a frame on the wire
WireMsgId(data) == UnpackH(remove_escape_rules(Slice(data, 1, Len(data) - 1)), 1)

\* C1: within a session, whatever the split of the byte stream into recv
\* chunks, the frames handed to the decoder are the frames the peer wrote,
\* each exactly once and in the order written, and once every byte has been
\* received every complete frame has been handed over.
C1_EachFrameDispatchedOnceInOrder ==
    \A s \in Sockets :
        /\ Len(handled[s]) <= Len(peer_sent[s])
        /\ \A i \in 1..Len(handled[s]) :
               i <= Len(peer_sent[s]) => handled[s][i].data = peer_sent[s][i]
        /\ (inflight[s] = <<>> /\ recvs[s] > 0) => Len(handled[s]) >= Len(peer_sent[s])

\* C2: decode(encode(f)) returns a frame equal to f in msg_id, device id,
\* serial number, sub-package info and body.
C2_DecodeEncodeRoundTrip ==
    (cpc = "decoded" /\ wire = Encode(frame)) =>
        /\ decoded.ok
        /\ decoded.msg.msg_id = frame.msg_id
        /\ decoded.msg.phone_no = frame.phone_no
        /\ decoded.msg.msg_serial_no = frame.msg_serial_no
        /\ decoded.msg.subpackage_info = frame.subpackage_info
        /\ decoded.msg.body = frame.body

\* C3: a location event passed to the bus for a device comes at least the
\* time threshold of its activity after, and at least the distance threshold
\* of its activity away from, the previous location event passed to the bus
\* for that device.
C3_DualGateMonotone ==
    [][call'.flip # call.flip =>
        \A i \in 1..Len(call'.events) :
            LET e == call'.events[i]
                activity == ActivityLevel(e.speed)
            IN  (/\ e.kind = "location"
                 /\ e.sent
                 /\ e.device_id \in DOMAIN last_pub_loc) =>
                    /\ now - last_pub_loc[e.device_id].t >= ThresholdInterval(activity)
                    /\ calculate_distance(last_pub_loc[e.device_id].latitude,
                                          last_pub_loc[e.device_id].longitude,
                                          e.latitude, e.longitude)
                           >= ThresholdDistance(activity)]_vars

\* C4: with throttling enabled and the bus connected, a location report for
\* a device with stored gate state is published if and only if the time
\* since the stored last_pub_time and the distance from the stored position
\* both reach the thresholds of the report's activity; last_pub_time changes
\* only when the report is published.
C4_PublishedIffBothGates ==
    [][(/\ call'.flip # call.flip
        /\ call'.op = "location"
        /\ call'.wellformed
        /\ throttle_duplicates
        /\ mqtt_connected
        /\ call'.device_id \in DOMAIN device_state) =>
        LET d == call'.device_id
            activity == ActivityLevel(call'.speed)
            open == /\ now - device_state[d].last_pub_time >= ThresholdInterval(activity)
                    /\ calculate_distance(device_state[d].lat, device_state[d].lon,
                                          call'.latitude, call'.longitude)
                           >= ThresholdDistance(activity)
            published == HasEvent(Sent(call'.events), "location", d)
        IN  /\ published <=> open
            /\ device_state'[d].last_pub_time # device_state[d].last_pub_time
                   => published]_vars

\* C5: with the bus connected, the first well-formed location report of a
\* device is published; the report that follows it 30 s later, two
\* arc-seconds of latitude away, at walking speed, is not.
C5_FirstPublishedSecondNot ==
    [][(/\ call'.flip # call.flip
        /\ call'.op = "location"
        /\ call'.wellformed
        /\ mqtt_connected) =>
        LET d == call'.device_id
            published == HasEvent(Sent(call'.events), "location", d)
            second == /\ call.op = "location" /\ call.wellformed /\ call.first
                      /\ call.device_id = d
                      /\ HasEvent(Sent(call.events), "location", d)
                      /\ now - call.time = 30
                      /\ Abs(call'.latitude - call.latitude) = 2
                      /\ ActivityLevel(call'.speed) = "walking"
        IN  /\ d \notin DOMAIN device_state => published
            /\ second => ~published]_vars

\* C6: a well-framed frame of an unknown message id is answered with one
\* platform general response whose result byte is 3, and nothing is handed
\* to the bus for it.
C6_UnknownIdAnsweredUnsupported ==
    \A s \in Sockets : \A i \in 1..Len(handled[s]) :
        handled[s][i].data = UnknownFrame =>
            /\ handled[s][i].dispatched
            /\ Len(handled[s][i].writes) = 1
            /\ WireMsgId(handled[s][i].writes[1]) = PLATFORM_GENERAL_RESPONSE
            /\ ResultByte(handled[s][i].writes[1]) = 3
            /\ handled[s][i].events = <<>>

\* C7: a frame whose checksum byte does not match is not decoded, and the
\* server writes no response and hands nothing to the bus for it.
C7_CorruptedChecksumDropped ==
    \A s \in Sockets : \A i \in 1..Len(handled[s]) :
        ChecksumMismatch(handled[s][i].data) =>
            /\ ~handled[s][i].dispatched
            /\ handled[s][i].writes = <<>>
            /\ handled[s][i].events = <<>>

\* C8: whichever sessions of a device submit status, no online status event
\* is passed to the bus less than 5 s after an offline status event was
\* passed to the bus for the same device.
C8_NoOnlineWithin5sOfOffline ==
    [][call'.flip # call.flip =>
        \A i \in 1..Len(call'.events) :
            LET e == call'.events[i]
            IN  (/\ e.kind = "status"
                 /\ e.status = "online"
                 /\ e.sent
                 /\ e.device_id \in DOMAIN last_offline) =>
                    now - last_offline[e.device_id] >= 5]_vars

\* C9: a call that submits offline for a device whose cached status is
\* online, or that has no cached status, hands an offline status event to
\* _publish_mqtt, however little time has passed since the cached status,
\* and while the bus is connected the event is passed to it.
C9_OfflineTransitionPublished ==
    [][(/\ call'.flip # call.flip
        /\ call'.status = "offline"
        /\ \/ call'.device_id \notin DOMAIN status_cache
           \/ status_cache[call'.device_id].status = "online") =>
        /\ HasStatusEvent(call'.events, call'.device_id, "offline")
        /\ mqtt_connected =>
               HasStatusEvent(Sent(call'.events), call'.device_id, "offline")]_vars

\* offline was submitted in the same second as the cached online status and
\* the offline status event was passed to the bus
C9_OfflineRightAfterOnline ==
    /\ call.status = "offline"
    /\ call.cached = "online"
    /\ call.since = 0
    /\ HasStatusEvent(Sent(call.events), call.device_id, "offline")

\* C10: with the bus connected, an online status submitted for a device
\* whose last gate call published online (so the cached timestamp is the time
\* of the last publish) is suppressed while less than status_ttl has passed
\* since then, and is published once status_ttl has passed.
C10_OnlineRepublishedAfterTtl ==
    [][(/\ call'.flip # call.flip
        /\ call'.status = "online"
        /\ mqtt_connected
        /\ HasStatusEvent(Sent(call.events), call'.device_id, "online")
        /\ call'.device_id \in DOMAIN status_cache
        /\ status_cache[call'.device_id].status = "online") =>
        LET d == call'.device_id
            since == now - status_cache[d].timestamp
            published == HasStatusEvent(Sent(call'.events), d, "online")
        IN  /\ since < status_ttl => ~published
            /\ since >= status_ttl => published]_vars

\* the events of one kind that the frames handled on a session handed to
\* _publish_mqtt, as (frame index, event index) pairs
SessionEvents(s, kind) ==
    {p \in UNION {{<<i, j>> : j \in 1..Len(handled[s][i].events)} :
                      i \in 1..Len(handled[s])} :
        handled[s][p[1]].events[p[2]].kind = kind}

\* the frames of one message id dispatched on a session, as indices of the log
DispatchedFrames(s, msg_id) ==
    {i \in 1..Len(handled[s]) :
        handled[s][i].dispatched /\ WireMsgId(handled[s][i].data) = msg_id}

\* C11: whatever registration frames a session receives, the frames handled
\* on it hand at most one registration event to the bus.
C11_AtMostOneRegistrationPerSession ==
    \A s \in SessionSockets : Cardinality(SessionEvents(s, "registration")) <= 1

\* a session dispatched two registration frames with a body that parses and
\* one registration event came of them
C11_TwoRegistrationsOneEvent ==
    \E s \in SessionSockets :
        /\ \E i, j \in DispatchedFrames(s, TERMINAL_REGISTRATION) :
               /\ i < j
               /\ handled[s][i].data \in {RegistrationFrameA, RegistrationFrameB}
               /\ handled[s][j].data \in {RegistrationFrameA, RegistrationFrameB}
        /\ Cardinality(SessionEvents(s, "registration")) = 1

\* C12: the gate decisions of a session depend only on the frames of that
\* session: a session that presents a device id another session presented
\* starts with empty caches, so the first registration frame it handles
\* hands a registration event to the bus.
C12_FirstRegistrationOfEachSessionPublished ==
    \A s \in SessionSockets :
        (\E i \in DispatchedFrames(s, TERMINAL_REGISTRATION) :
             handled[s][i].data \in {RegistrationFrameA, RegistrationFrameB})
        => SessionEvents(s, "registration") # {}

\* C13: a call of the authentication handler hands an authentication event
\* to the bus if and only if the code of the frame differs from the code
\* cached for the device or none is cached, and afterwards the cache holds
\* the code of the frame.
C13_AuthPublishedIffCodeChanged ==
    [][(call'.flip # call.flip /\ call'.op = "authentication") =>
        LET d == call'.device_id
            changed == \/ d \notin DOMAIN auth_cache
                       \/ auth_cache[d].auth_code # call'.auth_code
        IN  /\ HasEvent(call'.events, "authentication", d) <=> changed
            /\ mqtt_connected =>
                   (HasEvent(Sent(call'.events), "authentication", d) <=> changed)
            /\ d \in DOMAIN auth_cache'
            /\ auth_cache'[d].auth_code = call'.auth_code]_vars

\* an authentication call carrying the cached code "FF" was suppressed: no
\* event, and the cache still holds the code
C13_RepeatedCodeSuppressed ==
    /\ call.op = "authentication"
    /\ mqtt_connected
    /\ ~HasEvent(call.events, "authentication", call.device_id)
    /\ call.device_id \in DOMAIN auth_cache
    /\ auth_cache[call.device_id].auth_code = call.auth_code
    /\ call.auth_code = <<70, 70>>

C15_LogoutClosesSession ==
    \A s \in SessionSockets :
        DispatchedFrames(s, TERMINAL_LOGOUT) # {}
        => (s \notin DOMAIN clients /\ closes[s] >= 1)

\* C17: once the write of a response has failed on a session (a frame was
\* dispatched on a socket whose sendall raises, and nothing was written for
\* it), the session is closed.
C17_WriteFailureClosesSession ==
    \A s \in SessionSockets :
        (s \in broken /\ \E i \in 1..Len(handled[s]) :
                             handled[s][i].dispatched /\ handled[s][i].writes = <<>>)
        => (s \notin DOMAIN clients /\ closes[s] >= 1)

\* C16: the teardown of a session takes effect exactly once, even when the
\* session's thread and stop() both tear it down: no more than one offline
\* status is submitted to the gate for the session.
C16_TeardownExactlyOnce == submits[1] <= 1

\* C18: a frame that fails to decode or whose body fails to parse hands no
\* event to the bus; the session stays in the table (a session leaves the
\* table only through _close_client); and every well-formed frame the
\* terminal wrote after it is dispatched once its bytes have been read, and
\* answered unless the socket is broken.
C18_MalformedFrameDropped ==
    \A s \in SessionSockets :
        /\ \A i \in 1..Len(handled[s]) :
               handled[s][i].data \in MalformedFrames => handled[s][i].events = <<>>
        /\ (s \in DOMAIN hbuf /\ closes[s] = 0) => s \in DOMAIN clients
        /\ inflight[s] = <<>> =>
               \A k \in 1..Len(peer_sent[s]) :
                   \A m \in 1..(k - 1) :
                       (/\ peer_sent[s][k] \in WellFormedFrames
                        /\ peer_sent[s][m] \in MalformedFrames)
                       => \E i, j \in 1..Len(handled[s]) :
                              /\ i < j
                              /\ handled[s][i].data = peer_sent[s][m]
                              /\ handled[s][j].data = peer_sent[s][k]
                              /\ handled[s][j].dispatched
                              /\ s \notin broken => handled[s][j].writes # <<>>

\* a session handled a frame with an empty authentication body, is still in
\* the table, and then handled a well-formed authentication frame, which
\* handed an authentication event to the bus
C18_AuthAfterEmptyAuth ==
    \E i, j \in 1..Len(handled[1]) :
        /\ i < j
        /\ handled[1][i].data = EmptyAuthFrame
        /\ handled[1][i].dispatched
        /\ handled[1][j].data = AuthFrame
        /\ \E e \in 1..Len(handled[1][j].events) :
               handled[1][j].events[e].kind = "authentication"
        /\ 1 \in DOMAIN clients

\* C20: once the device id of a session is set, no step changes it while
\* the session is in the table; it is the id of the first frame decoded on
\* the session; and every event of the frames handled on the session carries
\* that id, whatever id the frames carry.
C20_DeviceIdImmutable ==
    [][\A s \in SessionSockets :
          s \in DOMAIN clients' =>
              /\ (s \in DOMAIN clients /\ clients[s].device_id # NoDevice)
                     => clients'[s].device_id = clients[s].device_id
              /\ LET disp == {j \in 1..Len(handled'[s]) : handled'[s][j].dispatched}
                 IN  disp # {} =>
                         clients'[s].device_id =
                             Decode(handled'[s][CHOOSE j \in disp :
                                                   \A k \in disp : j <= k].data).msg.phone_no
              /\ \A i \in 1..Len(handled'[s]) :
                     \A e \in 1..Len(handled'[s][i].events) :
                         handled'[s][i].events[e].device_id = clients'[s].device_id]_vars

\* a session identified as "013800" by its first frame handled an
\* authentication frame that carries the id "123456", and the authentication
\* event was handed to the bus under "013800"
C20_LaterFrameUnderFirstIdentity ==
    /\ 1 \in DOMAIN clients
    /\ clients[1].device_id = Pack6s(DeviceB)
    /\ \E i \in 1..Len(handled[1]) :
           /\ handled[1][i].data = AuthFrame
           /\ Decode(AuthFrame).msg.phone_no = Pack6s(DeviceA)
           /\ \E e \in 1..Len(handled[1][i].events) :
                  /\ handled[1][i].events[e].kind = "authentication"
                  /\ handled[1][i].events[e].device_id = Pack6s(DeviceB)

\* C19: the read buffer of a session never holds more than 64 KiB: neither
\* the buffer in the session table nor the buffer the session's thread
\* extends.
C19_ReadBufferCapped ==
    \A s \in DOMAIN clients :
        /\ Len(clients[s].buffer) <= 64 * 1024
        /\ Len(hbuf[s]) <= 64 * 1024

\* C30: for every byte string b, apply_escape_rules(b) holds no byte 0x7e
\* and remove_escape_rules(apply_escape_rules(b)) is b.
C30_EscapeRoundTrip ==
    /\ cpc = "escaped" => \A i \in 1..Len(wire) : wire[i] # 126
    /\ cpc = "unescaped" => wire = frame.body

\* the round trip of a string that holds 0x7d, 0x7e and the bytes of an
\* escape sequence
C30_RoundTripOfEscapeBytes ==
    /\ cpc = "unescaped"
    /\ frame.body = <<125, 2, 126, 1>>
    /\ wire = <<125, 2, 126, 1>>

\* C29: while the bus is not connected, no event of a handled frame or of a
\* teardown is passed to mqtt_client.publish, and the session that handled
\* the frame stays in the table; when the bus connects again, nothing is
\* passed to it for the events dropped before.
C29_DisconnectedBusDropsEvents ==
    [][/\ ~mqtt_connected =>
              /\ last_offline' = last_offline
              /\ last_pub_loc' = last_pub_loc
              /\ last_pub_hb' = last_pub_hb
              /\ \A s \in Sockets :
                     Len(handled'[s]) > Len(handled[s]) =>
                         /\ s \in DOMAIN clients'
                         /\ \A i \in (Len(handled[s]) + 1)..Len(handled'[s]) :
                                Sent(handled'[s][i].events) = <<>>
       /\ mqtt_connected' # mqtt_connected =>
              /\ handled' = handled
              /\ last_offline' = last_offline
              /\ last_pub_loc' = last_pub_loc
              /\ last_pub_hb' = last_pub_hb]_vars

\* a heartbeat frame was handled while the bus was not connected: its
\* heartbeat event was dropped, the bus is connected now, no heartbeat of the
\* device has reached it, and the session is still in the table
C29_HeartbeatDroppedThenReconnected ==
    /\ mqtt_connected
    /\ 1 \in DOMAIN clients
    /\ last_pub_hb = EmptyDict
    /\ \E i \in 1..Len(handled[1]) :
           /\ handled[1][i].data = HeartbeatFrame
           /\ \E e \in 1..Len(handled[1][i].events) :
                  /\ handled[1][i].events[e].kind = "heartbeat"
                  /\ ~handled[1][i].events[e].sent

\* C24: the general response written for a handled frame, read with the
\* header layout of Message.decode, has message id 0x8001 and the 5-byte body
\* serial number of the request, message id of the request, result 0, and
\* carries the device id of the request frame.
C24_GeneralResponseAcknowledgesRequest ==
    \A s \in SessionSockets : \A i \in 1..Len(handled[s]) :
        (/\ handled[s][i].data \in {AuthFrame, LogoutFrame}
         /\ handled[s][i].dispatched
         /\ handled[s][i].writes # <<>>)
        => LET request == Decode(handled[s][i].data).msg
               response == Decode(handled[s][i].writes[1])
           IN  /\ Len(handled[s][i].writes) = 1
               /\ response.ok
               /\ response.msg.msg_id = PLATFORM_GENERAL_RESPONSE
               /\ response.msg.body = <<request.msg_serial_no \div 256,
                                        request.msg_serial_no % 256,
                                        request.msg_id \div 256,
                                        request.msg_id % 256, 0>>
               /\ response.msg.phone_no = request.phone_no

\* C21: once stop() has returned, the listener is closed, the session table
\* is empty and the socket of every accepted connection has been closed.
C21_StopLeavesNothingOpen ==
    listener.stop = "returned" =>
        /\ listener.socket = "closed"
        /\ DOMAIN clients = {}
        /\ \A s \in DOMAIN hbuf : closes[s] >= 1

\* C22: while the server runs, a step in which a session is torn down or
\* handles a frame (decoded or not) leaves every other session in the table
\* with its buffer, its device id and its socket as they were, and leaves the
\* listener and the accept thread as they were; and the accept thread does
\* not end: after an accept() that raised it calls accept() again.
C22_SessionFailureIsContained ==
    [][running' =>
          /\ \A s \in DOMAIN clients :
                 (s \notin DOMAIN clients' \/ handled'[s] # handled[s]) =>
                     /\ listener' = listener
                     /\ \A t \in DOMAIN clients \ {s} :
                            /\ t \in DOMAIN clients'
                            /\ clients'[t] = clients[t]
                            /\ closes'[t] = closes[t]
                            /\ hbuf'[t] = hbuf[t]
          /\ listener'.pc # "done"
          /\ (listener.pc = "accept" /\ listener'.failures > listener.failures)
                 => listener'.pc = "loop"
          /\ (listener.pc = "loop" /\ listener' # listener)
                 => listener'.pc = "accept"]_vars

\* a session was torn down after a read error while another session, accepted
\* after an accept() that raised, is in the table with its socket open and the
\* frame it has handled
C22_OtherSessionSurvives ==
    /\ running
    /\ closes[1] = 1
    /\ 1 \notin DOMAIN clients
    /\ inflight[1] # <<>>
    /\ 2 \in DOMAIN clients
    /\ 2 \in listener.after_failure
    /\ closes[2] = 0
    /\ Len(handled[2]) = 1
    /\ clients[2].device_id = Pack6s(DeviceA)
    /\ listener.pc = "accept"

\* the frames of the gateway that the receive thread of the simulator has
\* handled
SimHandled == SubSeq(sent[1], 1, sim.rx - Len(sim.inbox))

\* C23: in the handshake of the simulator with the gateway, the auth code
\* the simulator takes from the registration response is the code the
\* gateway put into it ("123456"), every authentication frame the simulator
\* writes carries that code, and the gateway's general response to the
\* authentication is read as the acknowledgement of 0x0102 with result 0, so
\* that it, not the 10 s fallback, sets authenticated.
C23_HandshakeEndToEnd ==
    /\ sim.reg_handled => sim.auth_code = AuthCode123456
    /\ \A k \in 1..Len(peer_sent[1]) :
           WireMsgId(peer_sent[1][k]) = TERMINAL_AUTH
           => \E serial \in 1..MaxSerial :
                  peer_sent[1][k] = Encode(create_authentication(sim.device_id,
                                                                 AuthCode123456,
                                                                 serial))
    /\ (\E k \in 1..Len(SimHandled) :
            WireMsgId(SimHandled[k]) = PLATFORM_GENERAL_RESPONSE)
       => sim.acked


\* C28: in the reconnect loop of the simulator the delay slept after the
\* k-th consecutive failed connect is 5 s doubled k-1 times and capped at
\* 60 s, the delay kept for the next failure never exceeds 60 s, and after
\* a successful connect it is 5 s again.
C28_ReconnectBackoff ==
    /\ sim.backoff_time <= max_reconnect_interval
    /\ sim.fails = 0 => sim.backoff_time = reconnect_interval
    /\ sim.fails >= 1 =>
           /\ sim.delay = Min(reconnect_interval * 2 ^ (sim.fails - 1),
                              max_reconnect_interval)
           /\ sim.backoff_time = Min(reconnect_interval * 2 ^ sim.fails,
                                     max_reconnect_interval)

\* the simulator is connected after a failed connect for which it slept the
\* maximum delay
C28_ConnectedAfterLongestDelay ==
    /\ sim.connected
    /\ sim.fails = 0
    /\ sim.delay = max_reconnect_interval

\* C26: when the connection manager is about to write the registration of
\* a connection that is not the first, authenticated is false and auth_code
\* is none; and a heartbeat is written only to a connection on which
\* authenticated was set (by the acknowledgement or by the fallback).
C26_AuthStateClearedBeforeReconnect ==
    /\ (sim.pc = "register" /\ sim.conn >= 2)
       => (~sim.authenticated /\ sim.auth_code = NoCode)
    /\ sim.data_conn <= sim.authd_conn

\* C27: the heartbeat and location threads were started after a handshake
\* on the connection of that moment: the registration and then an
\* authentication were written to it, authenticated was set on it (by the
\* acknowledgement or by the fallback after 10 s), and auth_code is not
\* none.
C27_ThreadsStartedAfterHandshake ==
    sim.threads_started =>
        /\ sim.started.reg_conn = sim.started.conn
        /\ sim.started.auth_conn = sim.started.conn
        /\ sim.started.authd_conn = sim.started.conn
        /\ sim.started.authenticated
        /\ sim.started.auth_code # NoCode

\* C25: every location report the simulator sends, the first one included,
\* comes at least the interval of the activity of the current speed after
\* the report before it (or after construction), from a position at least
\* that activity's distance threshold away from the position of the report
\* before it (or the start position).
C25_ReportsPassBothGates ==
    sim.loc # <<>> /\ sim.loc.report # <<>> =>
        /\ sim.loc.report.elapsed >= SimInterval(sim.loc.report.speed)
        /\ sim.loc.report.distance >= SimThresholdCm(sim.loc.report.speed)

\* the bytes of a framed input before its checksum byte, after unescaping
UnescapedHeader(data) ==
    LET u == remove_escape_rules(Slice(data, 1, Len(data) - 1))
    IN  Slice(u, 0, Len(u) - 1)

\* C31: Message.decode raises for every framed input whose unescaped
\* header has fewer than 12 bytes; it returns no frame whose device id or
\* serial number is a default.
C31_ShortHeaderRejected ==
    (cpc = "decoded" /\ Len(UnescapedHeader(wire)) < 12) => ~decoded.ok

\* the body attributes field of a frame on the wire
WireBodyAttr(data) == UnpackH(UnescapedHeader(data), 3)

\* C32: in every frame Message.encode produces, the low ten bits of the
\* body attributes are the length of the body, and bit 10 and bit 13 are
\* set only if the frame is encrypted and a sub-package; and the frame
\* Message.decode returns for it has a body of the length the body
\* attributes give and the flags they give.
C32_BodyAttrMatchesBody ==
    (cpc # "start" /\ wire = Encode(frame)) =>
        /\ Len(frame.body) = BitAnd(WireBodyAttr(wire), 1023)
        /\ BitAnd(WireBodyAttr(wire), 1024) # 0 => frame.encrypted
        /\ BitAnd(WireBodyAttr(wire), 8192) # 0 => frame.is_subpackage
        /\ (cpc = "decoded" /\ decoded.ok) =>
               /\ Len(decoded.msg.body) = BitAnd(WireBodyAttr(wire), 1023)
               /\ decoded.msg.encrypted = (BitAnd(WireBodyAttr(wire), 1024) # 0)
               /\ decoded.msg.is_subpackage = (BitAnd(WireBodyAttr(wire), 8192) # 0)

ActivityOfTenths(speed_field) ==
    IF speed_field > 200 THEN "fast_moving"
    ELSE IF speed_field > 50 THEN "walking"
    ELSE "resting"

\* C34: the activity _publish_location stores for a well-formed report, the
\* one whose thresholds it selects, is fast_moving if the reported speed
\* (the speed field divided by ten) is above 20 km/h, walking if it is above
\* 5 km/h, and resting otherwise.
C34_ActivityByReportedSpeed ==
    (call.op = "location" /\ call.wellformed) =>
        device_state[call.device_id].activity = ActivityOfTenths(call.speed)

\* C35: the body Message.create_location_report builds is at least the 28
\* bytes of the basic layout, and the fields _publish_location reads from it
\* are the alarm flag, status, coordinates, altitude, speed, direction and
\* timestamp that were passed in (the status with the south and west bits
\* of the coordinates' signs).
C35_ReportRoundTrip ==
    /\ cpc = "created" => Len(frame.body) >= 28
    /\ cpc = "parsed" =>
           /\ decoded.ok
           /\ decoded.msg.alarm_flag = sim.loc.alarm_flag
           /\ BitAnd(decoded.msg.status, 2) = BitAnd(sim.loc.status, 2)
           /\ decoded.msg.latitude = sim.loc.latitude
           /\ decoded.msg.longitude = sim.loc.longitude
           /\ decoded.msg.altitude = sim.loc.altitude
           /\ decoded.msg.speed = sim.loc.speed
           /\ decoded.msg.direction = sim.loc.direction
           /\ decoded.msg.timestamp = sim.loc.timestamp

\* C36: once every byte the peer wrote has been read, each frame the peer
\* wrote after its invalid bytes has been extracted whole and passed to
\* Message.decode, whatever the invalid bytes were and however recv() cut
\* the stream.
C36_FramesAfterNoiseDispatched ==
    (1 \in DOMAIN clients /\ Len(peer_sent[1]) = MaxWrites /\ inflight[1] = <<>>) =>
        \A i \in 2..MaxWrites :
            \E j \in 1..Len(handled[1]) : handled[1][j].data = peer_sent[1][i]

\* C37: a heartbeat received at least heartbeat_interval seconds after the
\* last heartbeat event of its device that was passed to the bus is itself
\* handed to _publish_mqtt.
C37_HeartbeatDueIsPublished ==
    [][(/\ call'.flip # call.flip
        /\ call'.op = "heartbeat"
        /\ call'.device_id \in DOMAIN last_pub_hb
        /\ now - last_pub_hb[call'.device_id] >= heartbeat_interval)
       => HasEvent(call'.events, "heartbeat", call'.device_id)]_vars

\* C38: a status change or a location report handled while the bus was
\* disconnected is recorded in its cache as if it had been published: when
\* the bus has reconnected and the identical call arrives (same handler,
\* device, status, position and speed, at the same time), no event of that
\* kind is handed to the bus again.
C38_DroppedEventSuppressedAfterReconnect ==
    [][(/\ call.op \in {"location", "heartbeat", "close"}
        /\ call.events # <<>>
        /\ Sent(call.events) = <<>>
        /\ mqtt_connected
        /\ call'.flip # call.flip
        /\ [call' EXCEPT !.events = <<>>, !.flip = 0, !.cached = "", !.since = 0, !.first = FALSE]
             = [call EXCEPT !.events = <<>>, !.flip = 0, !.cached = "", !.since = 0, !.first = FALSE])
       => \A kind \in {"status", "location"} :
              HasEvent(call.events, kind, call.device_id)
                  => ~HasEvent(call'.events, kind, call.device_id)]_vars

\* C39: every serial number issued by _get_next_serial_no lies in 0..65534,
\* and any two messages of one simulator (fewer than 65535 sends) carry
\* different serial numbers, for every interleaving of the threads.
C39_SerialNumbersDistinct ==
    /\ \A i \in 1..Len(sim.outbox) : sim.outbox[i].msg_serial_no \in 0..65534
    /\ \A i, j \in 1..Len(sim.outbox) :
           i # j => sim.outbox[i].msg_serial_no # sim.outbox[j].msg_serial_no

\* the authentication frames the simulator has written on its connection:
\* those that reached the gateway and those still on their way
AuthFramesWritten ==
    Cardinality({k \in 1..Len(peer_sent[1]) : WireMsgId(peer_sent[1][k]) = TERMINAL_AUTH})
    + Cardinality({k \in 1..Len(sim.outbox) : sim.outbox[k].msg_id = TERMINAL_AUTH})

\* C40: in the handshake of one connection the simulator writes exactly one
\* authentication frame, however the receive thread, which authenticates on
\* the registration response, and the connection manager, which
\* authenticates after its wait for the auth code, interleave: never more
\* than one, and one once the connection manager has finished the handshake.
C40_OneAuthenticationFrame ==
    /\ AuthFramesWritten <= 1
    /\ (sim.pc = "start" /\ sim.authenticated) => AuthFramesWritten = 1

=========================================================================
